---- MODULE Spec2Model ----
(***************************************************************************)
(* A model of log4go's dispatch engine (log4go.go), its structured field   *)
(* model (field.go) and its JSON/text encoder (json_encoder.go).           *)
(*                                                                         *)
(* Text is modelled as a sequence of byte values (Go strings are byte      *)
(* sequences); every literal below carries its text in a comment.          *)
(***************************************************************************)
EXTENDS Integers, Sequences, FiniteSets, TLC

(***************************************************************************)
(* Levels (log4go.go:69-78)                                                *)
(***************************************************************************)
FINEST == 0
FINE == 1
DEBUG == 2
TRACE == 3
INFO == 4
WARNING == 5
ERROR == 6
CRITICAL == 7

Levels == {FINEST, FINE, DEBUG, TRACE, INFO, WARNING, ERROR, CRITICAL}

\* levelStrings = {"FNST","FINE","DEBG","TRAC","INFO","WARN","EROR","CRIT"}
levelStrings ==
  << <<70, 78, 83, 84>>, <<70, 73, 78, 69>>, <<68, 69, 66, 71>>,
     <<84, 82, 65, 67>>, <<73, 78, 70, 79>>, <<87, 65, 82, 78>>,
     <<69, 82, 79, 82>>, <<67, 82, 73, 84>> >>

\* The value a Go panic leaves in place of a result.
PANIC == <<-1>>

\* Level.String: "UNKNOWN" when l < 0 or int(l) > len(levelStrings); the
\* index expression levelStrings[int(l)] panics when l = len(levelStrings).
LevelString(l) ==
  IF l < 0 \/ l > Len(levelStrings) THEN <<85, 78, 75, 78, 79, 87, 78>>
  ELSE IF l + 1 \in DOMAIN levelStrings THEN levelStrings[l + 1]
  ELSE PANIC

(***************************************************************************)
(* Decimal rendering (strconv.Itoa / AppendInt, and fmt's %d)              *)
(***************************************************************************)
RECURSIVE Digits(_)
Digits(n) == IF n < 10 THEN <<48 + n>> ELSE Digits(n \div 10) \o <<48 + (n % 10)>>

Itoa(n) == IF n < 0 THEN <<45>> \o Digits(0 - n) ELSE Digits(n)

\* fmt's %0Wd for a non-negative n: left-padded with '0' to width w.
RECURSIVE ZeroPad(_, _)
ZeroPad(s, w) == IF Len(s) >= w THEN s ELSE ZeroPad(<<48>> \o s, w)

(***************************************************************************)
(* 64-bit integers.  A Go integer of any type is held as its 64-bit        *)
(* two's-complement pattern: four 16-bit limbs, the most significant       *)
(* first.  A signed type narrower than 64 bits is held sign-extended, an   *)
(* unsigned one zero-extended, so that a conversion to a type of 64 bits   *)
(* leaves the pattern as it is.  int is 64 bits wide.                      *)
(***************************************************************************)
LimbBase == 65536

Zero64 == <<0, 0, 0, 0>>

\* The pattern of an integer n of at most 32 bits: int64(n).
FromInt(n) ==
  LET top == IF n < 0 THEN LimbBase - 1 ELSE 0
  IN <<top, top, (n \div LimbBase) % LimbBase, n % LimbBase>>

\* Whether the pattern, read as an int64, is negative.
IsNeg(w) == w[1] >= LimbBase \div 2

\* int8(x): the low 8 bits, sign-extended.
ToInt8(w) ==
  LET lo == w[4] % 256
  IN IF lo >= 128 THEN <<LimbBase - 1, LimbBase - 1, LimbBase - 1, (LimbBase - 256) + lo>>
     ELSE <<0, 0, 0, lo>>

\* int32(x): the low 32 bits, sign-extended.
ToInt32(w) ==
  IF w[3] >= LimbBase \div 2 THEN <<LimbBase - 1, LimbBase - 1, w[3], w[4]>>
  ELSE <<0, 0, w[3], w[4]>>

\* uint32(x): the low 32 bits, zero-extended.
ToUint32(w) == <<0, 0, w[3], w[4]>>

\* -x in 64 bits: every limb complemented, then one added with its carries.
Negate(w) ==
  LET c == [i \in 1..4 |-> (LimbBase - 1) - w[i]]
      l4 == c[4] + 1
      l3 == c[3] + (l4 \div LimbBase)
      l2 == c[2] + (l3 \div LimbBase)
      l1 == c[1] + (l2 \div LimbBase)
  IN <<l1 % LimbBase, l2 % LimbBase, l3 % LimbBase, l4 % LimbBase>>

\* The quotient and the remainder of the unsigned pattern w divided by 10, by
\* long division over the limbs.
DivMod10(w) ==
  LET c1 == w[1]
      c2 == (c1 % 10) * LimbBase + w[2]
      c3 == (c2 % 10) * LimbBase + w[3]
      c4 == (c3 % 10) * LimbBase + w[4]
  IN [q |-> <<c1 \div 10, c2 \div 10, c3 \div 10, c4 \div 10>>, r |-> c4 % 10]

\* strconv.AppendUint(buf, w, 10)
RECURSIVE FormatUint(_)
FormatUint(w) ==
  LET d == DivMod10(w)
  IN IF d.q = Zero64 THEN <<48 + d.r>> ELSE FormatUint(d.q) \o <<48 + d.r>>

\* strconv.AppendInt(buf, w, 10)
FormatInt(w) == IF IsNeg(w) THEN <<45>> \o FormatUint(Negate(w)) ELSE FormatUint(w)

(***************************************************************************)
(* fmt.Sprintf over string arguments.  The templates of the model have,    *)
(* after a '%', either nothing, another '%', or a verb letter (no flags,   *)
(* width, precision or argument index).                                    *)
(***************************************************************************)
\* printArg for a string operand: %s and %v print it, any other letter is a
\* bad verb, "%!verb(string=value)".
printArg(arg, verb) ==
  IF verb = 115 \/ verb = 118 THEN arg
  ELSE <<37, 33, verb>> \o <<40, 115, 116, 114, 105, 110, 103, 61>> \o arg \o <<41>>

\* "string=value" of every argument from argNum on, separated by ", ".
RECURSIVE extraArgs(_, _)
extraArgs(a, argNum) ==
  IF argNum > Len(a) THEN <<>>
  ELSE <<115, 116, 114, 105, 110, 103, 61>> \o a[argNum]
       \o (IF argNum < Len(a) THEN <<44, 32>> ELSE <<>>)
       \o extraArgs(a, argNum + 1)

\* The tail of doPrintf: "%!(EXTRA string=v, ...)" when arguments are left.
extraTail(a, argNum) ==
  IF argNum <= Len(a)
  THEN <<37, 33, 40, 69, 88, 84, 82, 65, 32>> \o extraArgs(a, argNum) \o <<41>>
  ELSE <<>>

RECURSIVE doPrintf(_, _, _, _)
doPrintf(format, a, i, argNum) ==
  IF i > Len(format) THEN extraTail(a, argNum)
  ELSE IF format[i] # 37 THEN <<format[i]>> \o doPrintf(format, a, i + 1, argNum)
  ELSE IF i = Len(format)
       THEN <<37, 33, 40, 78, 79, 86, 69, 82, 66, 41>> \o extraTail(a, argNum)  \* "%!(NOVERB)"
  ELSE LET verb == format[i + 1] IN
       IF verb = 37 THEN <<37>> \o doPrintf(format, a, i + 2, argNum)
       ELSE IF argNum > Len(a)
            THEN <<37, 33, verb>> \o <<40, 77, 73, 83, 83, 73, 78, 71, 41>>     \* "%!v(MISSING)"
                 \o doPrintf(format, a, i + 2, argNum)
       ELSE printArg(a[argNum], verb) \o doPrintf(format, a, i + 2, argNum + 1)

Sprintf(format, a) == doPrintf(format, a, 1, 1)

(***************************************************************************)
(* Fields (field.go).  An interface{} value is its dynamic type with the   *)
(* value in the slot of that type: bool for a bool, num (a 64-bit pattern) *)
(* for an integer or a float, text for a string.  The floats of the model  *)
(* are whole numbers, held in num as the int64 of the same value.          *)
(***************************************************************************)
Dyn(type, b, n, t) == [dyn |-> type, bool |-> b, num |-> n, text |-> t]

\* The nil interface{}.
Nil == Dyn("nil", FALSE, Zero64, <<>>)

BoolValue(b) == Dyn("bool", b, Zero64, <<>>)

\* An integer or float value of the dynamic type `type`.
NumValue(type, n) == Dyn(type, FALSE, n, <<>>)

StringValue(t) == Dyn("string", FALSE, Zero64, t)

\* Field{Key: key, Type: type, ...}: the slots not named are zero values.
Field(key, type, integer, string, interface) ==
  [Key |-> key, Type |-> type, Integer |-> integer, String |-> string, Interface |-> interface]

Bool(key, value) == Field(key, "BoolType", Zero64, <<>>, BoolValue(value))

\* The integer helpers: Integer: int64(value), for a value held as its pattern.
Uint32(key, value) == Field(key, "Uint32Type", value, <<>>, Nil)

Int32(key, value) == Field(key, "Int32Type", value, <<>>, Nil)

Uint8(key, value) == Field(key, "Uint8Type", value, <<>>, Nil)

Int8(key, value) == Field(key, "Int8Type", value, <<>>, Nil)

Uint64(key, value) == Field(key, "Uint64Type", value, <<>>, Nil)

Int64(key, value) == Field(key, "Int64Type", value, <<>>, Nil)

\* Int (the name Int is the set of integers here)
IntField(key, value) == Field(key, "IntType", value, <<>>, Nil)

Float32(key, value) == Field(key, "Float32Type", Zero64, <<>>, NumValue("float32", value))

Float64(key, value) == Field(key, "Float64Type", Zero64, <<>>, NumValue("float64", value))

String(key, value) == Field(key, "StringType", Zero64, value, Nil)

\* Err: the key "error" and the text "nil" or err.Error(); err is Nil or a
\* value whose text is its Error().
Err(err) ==
  Field(<<101, 114, 114, 111, 114>>, "StringType", Zero64,
        IF err.dyn = "nil" THEN <<110, 105, 108>> ELSE err.text, Nil)

\* The dynamic types the type switch of Any has an integer case for.
AnyIntCases == {"int", "uint8", "int8", "uint32", "int32", "uint64", "int64"}

\* Any (the name Any is taken by the TLC module): the type switch on the
\* dynamic type of value.
AnyField(key, value) ==
  IF value.dyn \in AnyIntCases THEN Field(key, "IntType", value.num, <<>>, Nil)
  ELSE IF value.dyn = "string" THEN Field(key, "StringType", Zero64, value.text, Nil)
  ELSE Field(key, "InterfaceType", Zero64, <<>>, value)

\* A Field literal that names no Type: Type is the zero value, UnknownType.
UnknownField(key) == Field(key, "UnknownType", Zero64, <<>>, Nil)

(***************************************************************************)
(* fmt.Sprintf over operands of any type (the interface{} values above).   *)
(* The formats of the model have, after a '%', nothing, another '%', or    *)
(* one of the verbs d, s, t, v.                                            *)
(***************************************************************************)
SignedTypes == {"int", "int8", "int16", "int32", "int64"}

UnsignedTypes == {"uint", "uint8", "uint16", "uint32", "uint64"}

FloatTypes == {"float32", "float64"}

\* reflect.TypeOf(arg).String(), and "<nil>" for the nil interface{}.
TypeName(dyn) ==
  CASE dyn = "nil" -> <<60, 110, 105, 108, 62>>
    [] dyn = "bool" -> <<98, 111, 111, 108>>
    [] dyn = "string" -> <<115, 116, 114, 105, 110, 103>>
    [] dyn = "int" -> <<105, 110, 116>>
    [] dyn = "int8" -> <<105, 110, 116, 56>>
    [] dyn = "int16" -> <<105, 110, 116, 49, 54>>
    [] dyn = "int32" -> <<105, 110, 116, 51, 50>>
    [] dyn = "int64" -> <<105, 110, 116, 54, 52>>
    [] dyn = "uint" -> <<117, 105, 110, 116>>
    [] dyn = "uint8" -> <<117, 105, 110, 116, 56>>
    [] dyn = "uint16" -> <<117, 105, 110, 116, 49, 54>>
    [] dyn = "uint32" -> <<117, 105, 110, 116, 51, 50>>
    [] dyn = "uint64" -> <<117, 105, 110, 116, 54, 52>>
    [] dyn = "float32" -> <<102, 108, 111, 97, 116, 51, 50>>
    [] dyn = "float64" -> <<102, 108, 111, 97, 116, 54, 52>>

\* The operand under %v.
DefaultText(arg) ==
  IF arg.dyn = "bool"
  THEN (IF arg.bool THEN <<116, 114, 117, 101>> ELSE <<102, 97, 108, 115, 101>>)
  ELSE IF arg.dyn \in SignedTypes \cup FloatTypes THEN FormatInt(arg.num)
  ELSE IF arg.dyn \in UnsignedTypes THEN FormatUint(arg.num)
  ELSE IF arg.dyn = "string" THEN arg.text
  ELSE TypeName(arg.dyn)

\* Whether the verb is one fmt has for the operand's type.
goodVerb(arg, verb) ==
  \/ verb = 118
  \/ verb = 100 /\ arg.dyn \in SignedTypes \cup UnsignedTypes
  \/ verb = 115 /\ arg.dyn = "string"
  \/ verb = 116 /\ arg.dyn = "bool"

\* "type=value", or "<nil>" for the nil interface{}.
typedText(arg) ==
  IF arg.dyn = "nil" THEN TypeName("nil") ELSE TypeName(arg.dyn) \o <<61>> \o DefaultText(arg)

\* printArg: the operand under the verb, or badVerb's "%!verb(type=value)".
printValue(arg, verb) ==
  IF goodVerb(arg, verb) THEN DefaultText(arg)
  ELSE <<37, 33, verb, 40>> \o typedText(arg) \o <<41>>

RECURSIVE extraValues(_, _)
extraValues(a, argNum) ==
  IF argNum > Len(a) THEN <<>>
  ELSE typedText(a[argNum]) \o (IF argNum < Len(a) THEN <<44, 32>> ELSE <<>>)
       \o extraValues(a, argNum + 1)

\* "%!(EXTRA type=value, ...)" when operands are left.
extraValuesTail(a, argNum) ==
  IF argNum <= Len(a)
  THEN <<37, 33, 40, 69, 88, 84, 82, 65, 32>> \o extraValues(a, argNum) \o <<41>>
  ELSE <<>>

RECURSIVE doPrintfValues(_, _, _, _)
doPrintfValues(format, a, i, argNum) ==
  IF i > Len(format) THEN extraValuesTail(a, argNum)
  ELSE IF format[i] # 37 THEN <<format[i]>> \o doPrintfValues(format, a, i + 1, argNum)
  ELSE IF i = Len(format)
       THEN <<37, 33, 40, 78, 79, 86, 69, 82, 66, 41>> \o extraValuesTail(a, argNum)
  ELSE LET verb == format[i + 1] IN
       IF verb = 37 THEN <<37>> \o doPrintfValues(format, a, i + 2, argNum)
       ELSE IF argNum > Len(a)
            THEN <<37, 33, verb>> \o <<40, 77, 73, 83, 83, 73, 78, 71, 41>>
                 \o doPrintfValues(format, a, i + 2, argNum)
       ELSE printValue(a[argNum], verb) \o doPrintfValues(format, a, i + 2, argNum + 1)

SprintfValues(format, a) == doPrintfValues(format, a, 1, 1)

(***************************************************************************)
(* Time.  A time.Time is modelled by the components EncodeJson reads.      *)
(***************************************************************************)
Time(sec, nsec) ==
  [Year |-> 2026, Month |-> 11, Day |-> 3, Hour |-> 8, Minute |-> 5,
   Second |-> sec, Nanosecond |-> nsec]

\* time.Time{}
ZeroTime ==
  [Year |-> 1, Month |-> 1, Day |-> 1, Hour |-> 0, Minute |-> 0, Second |-> 0, Nanosecond |-> 0]

\* A reading of the clock taken after the reading t.
Later(t) == [t EXCEPT !.Nanosecond = @ + 10000]

(***************************************************************************)
(* The Logger: a map from name to Filter{Level, LogWriter}                 *)
(***************************************************************************)
Names == {"out", "file"}
Writers == {"w1", "w2"}

Filter(lvl, writer) == [Level |-> lvl, LogWriter |-> writer]

\* make(Logger)
EmptyLogger == [n \in {} |-> Filter(FINEST, "w1")]

LogRecord(lvl, created, source, message, json, fields) ==
  [Level |-> lvl, Created |-> created, Source |-> source, Message |-> message,
   Json |-> json, Fields |-> fields]

\* GetLogRecord on the instance rec that LogRecordPool.Get() returned, with
\* now the reading of the clock.
GetLogRecord(rec, lv, now, score, message, json, field) ==
  [rec EXCEPT !.Level = lv, !.Created = now, !.Source = score, !.Message = message,
              !.Json = json, !.Fields = field]

\* A faulty variant of PutLogRecord: Fields left as they are.
PutLogRecord_keepFields(rec) ==
  [rec EXCEPT !.Level = FINEST, !.Created = ZeroTime, !.Source = <<>>, !.Message = <<>>,
              !.Json = FALSE]

\* PutLogRecord: the instance as it goes back into LogRecordPool.
PutLogRecord(rec) ==
  [rec EXCEPT !.Level = FINEST, !.Created = ZeroTime, !.Source = <<>>, !.Message = <<>>,
              !.Json = FALSE, !.Fields = <<>>]

\* The first loop of every dispatch method: skip stays true unless some
\* filter has lvl >= filt.Level.
skipCheck(lg, lvl) == ~ \E n \in DOMAIN lg : lvl >= lg[n].Level

\* The filters the second loop does not `continue` past.
admitted(lg, lvl) == {n \in DOMAIN lg : ~ (lvl < lg[n].Level)}

\* One call filt.LogWrite(rec): the writer embedded in the filter, and the record.
LogWrite(filt, rec) == [to |-> filt.LogWriter, rec |-> rec]

\* A faulty variant of fanOut: the per-filter test written lvl <= filt.Level.
fanOut_strict(lg, lvl, rec) ==
  [n \in Names |->
     IF n \in DOMAIN lg /\ ~ (lvl <= lg[n].Level) THEN <<LogWrite(lg[n], rec)>> ELSE <<>>]

\* A faulty variant of afterLogWrite: the binding deleted once written to, as
\* the loop of Close does.
afterLogWrite_delete(lg, n) == [m \in DOMAIN lg \ {n} |-> lg[m]]

\* The Logger after the dispatch loop has called LogWrite on the filter under
\* n: the loop assigns to no entry and deletes none.
afterLogWrite(lg, n) == lg

\* The dispatch loop over one shared record: the LogWrite calls made on each
\* filter, by filter name.
fanOut(lg, lvl, rec) ==
  [n \in Names |-> IF n \in admitted(lg, lvl) THEN <<LogWrite(lg[n], rec)>> ELSE <<>>]

\* runtime.Caller(2) followed by fmt.Sprintf("%s:%d", fileName, lineno).
callerSrc(caller) ==
  IF caller.ok THEN caller.file \o <<58>> \o Itoa(caller.line) ELSE <<>>

\* What one dispatch call did: the LogWrite calls it made on each filter,
\* and how often it formatted a message (fmt.Sprintf on the template), resolved
\* the call site (runtime.Caller), ran the closure and allocated a LogRecord.
Effect(w, nformats, ncallers, nclosures, nallocs) ==
  [writes |-> w, formats |-> nformats, callers |-> ncallers,
   closures |-> nclosures, allocs |-> nallocs]

NoWrites == [n \in Names |-> <<>>]

\* The early `return` of a skipped call.
Skipped == Effect(NoWrites, 0, 0, 0, 0)

intLogf(lg, lvl, format, args, caller, now) ==
  IF skipCheck(lg, lvl) THEN Skipped
  ELSE LET src == callerSrc(caller)
           msg == IF Len(args) > 0 THEN Sprintf(format, args) ELSE format
           rec == LogRecord(lvl, now, src, msg, FALSE, <<>>)
       IN Effect(fanOut(lg, lvl, rec), IF Len(args) > 0 THEN 1 ELSE 0, 1, 0, 1)

\* An order in which `range log` may visit the filters.
NameOrder == <<"out", "file">>

\* The reading of the clock a call makes after it has made k readings.
RECURSIVE LaterBy(_, _)
LaterBy(t, k) == IF k = 0 THEN t ELSE LaterBy(Later(t), k - 1)

\* A faulty variant of intLogJson: time.Now() read inside the loop, once for
\* every filter visited, instead of once before it.
intLogJson_nowInLoop(lg, lvl, message, filed, caller, now) ==
  IF skipCheck(lg, lvl) THEN Skipped
  ELSE LET src == callerSrc(caller)
           idx(n) == CHOOSE i \in DOMAIN NameOrder : NameOrder[i] = n
           w == [n \in Names |->
                   IF n \in admitted(lg, lvl)
                   THEN <<LogWrite(lg[n], LogRecord(lvl, LaterBy(now, idx(n) - 1), src, message, TRUE, filed))>>
                   ELSE <<>>]
       IN Effect(w, 0, 1, 0, Cardinality(admitted(lg, lvl)))

\* intLogJson: the clock is read once, before the loop; the loop builds one
\* LogRecord per admitting filter from the same values.
intLogJson(lg, lvl, message, filed, caller, now) ==
  IF skipCheck(lg, lvl) THEN Skipped
  ELSE LET src == callerSrc(caller)
           w == [n \in Names |->
                   IF n \in admitted(lg, lvl)
                   THEN <<LogWrite(lg[n], LogRecord(lvl, now, src, message, TRUE, filed))>>
                   ELSE <<>>]
       IN Effect(w, 0, 1, 0, Cardinality(admitted(lg, lvl)))

\* A faulty variant of intLogc: the closure called inside the loop, once for
\* every admitting filter.
intLogc_closureInLoop(lg, lvl, closure, caller, now) ==
  IF skipCheck(lg, lvl) THEN Skipped
  ELSE LET src == callerSrc(caller)
           w == [n \in Names |->
                   IF n \in admitted(lg, lvl)
                   THEN <<LogWrite(lg[n], LogRecord(lvl, now, src, closure, FALSE, <<>>))>>
                   ELSE <<>>]
       IN Effect(w, 0, 1, Cardinality(admitted(lg, lvl)), 1)

\* intLogc: a closure is modelled by the text it returns; it is called once,
\* while the record is built.
intLogc(lg, lvl, closure, caller, now) ==
  IF skipCheck(lg, lvl) THEN Skipped
  ELSE LET src == callerSrc(caller)
           rec == LogRecord(lvl, now, src, closure, FALSE, <<>>)
       IN Effect(fanOut(lg, lvl, rec), 0, 1, 1, 1)

\* Logger.Log: source and message come from the caller.
LogManual(lg, lvl, source, message, now) ==
  IF skipCheck(lg, lvl) THEN Skipped
  ELSE Effect(fanOut(lg, lvl, LogRecord(lvl, now, source, message, FALSE, <<>>)), 0, 0, 0, 1)

NoCloses == [w \in Writers |-> 0]

\* A faulty variant of CloseAll: the filters are closed but not deleted.
CloseAll_keep(lg) ==
  [log |-> lg,
   closes |-> [w \in Writers |-> Cardinality({n \in DOMAIN lg : lg[n].LogWriter = w})]]

\* A faulty variant of CloseAll: the loop stops after the first filter.
CloseAll_first(lg) ==
  IF DOMAIN lg = {} THEN [log |-> lg, closes |-> NoCloses]
  ELSE LET n == CHOOSE m \in DOMAIN lg : TRUE
       IN [log |-> [m \in DOMAIN lg \ {n} |-> lg[m]],
           closes |-> [w \in Writers |-> IF lg[n].LogWriter = w THEN 1 ELSE 0]]

\* Logger.Close: every filter's Close is called (once per filter, so a writer
\* bound under k names is closed k times) and every entry is deleted.
CloseAll(lg) ==
  [log |-> EmptyLogger,
   closes |-> [w \in Writers |-> Cardinality({n \in DOMAIN lg : lg[n].LogWriter = w})]]

\* A faulty variant of Upsert: the writer a name was bound to is closed when
\* the name is bound again.
Upsert_closeOld(lg, name, lvl, writer) ==
  [log |-> [n \in DOMAIN lg \cup {name} |-> IF n = name THEN Filter(lvl, writer) ELSE lg[n]],
   closes |-> [w \in Writers |-> IF name \in DOMAIN lg /\ lg[name].LogWriter = w THEN 1 ELSE 0]]

\* Logger.AddFilter: log[name] = &Filter{lvl, writer}; no Close is called.
Upsert(lg, name, lvl, writer) ==
  [log |-> [n \in DOMAIN lg \cup {name} |-> IF n = name THEN Filter(lvl, writer) ELSE lg[n]],
   closes |-> NoCloses]

(***************************************************************************)
(* The encoder (json_encoder.go): a byte buffer and the `left` flag.       *)
(* Every method is an operator from the encoder to the encoder after it.   *)
(***************************************************************************)
newJsonEncoder == [buf |-> <<>>, left |-> FALSE]

appendByte(enc, b) == [enc EXCEPT !.buf = Append(@, b)]

appendString(enc, str) == [enc EXCEPT !.buf = @ \o str]

\* const Hex = "0123456789ABCDEF"
Hex == <<48, 49, 50, 51, 52, 53, 54, 55, 56, 57, 65, 66, 67, 68, 69, 70>>

\* The U+FFFD REPLACEMENT CHARACTER, utf8.RuneError.
RuneError == 65533

\* utf8.DecodeRuneInString on a non-empty s: the rune and the bytes it takes.
\* A byte that starts no valid sequence gives (RuneError, 1).
DecodeRuneInString(s) ==
  LET n == Len(s)
      s0 == s[1]
      bad == [r |-> RuneError, size |-> 1]
      cont(b) == 128 <= b /\ b <= 191
      sz == IF s0 < 128 THEN 1
            ELSE IF 194 <= s0 /\ s0 <= 223 THEN 2
            ELSE IF 224 <= s0 /\ s0 <= 239 THEN 3
            ELSE IF 240 <= s0 /\ s0 <= 244 THEN 4
            ELSE 0
      lo == IF s0 = 224 THEN 160 ELSE IF s0 = 240 THEN 144 ELSE 128
      hi == IF s0 = 237 THEN 159 ELSE IF s0 = 244 THEN 143 ELSE 191
  IN IF sz = 1 THEN [r |-> s0, size |-> 1]
     ELSE IF sz = 0 \/ n < sz THEN bad
     ELSE IF s[2] < lo \/ hi < s[2] THEN bad
     ELSE IF sz = 2 THEN [r |-> (s0 % 32) * 64 + (s[2] % 64), size |-> 2]
     ELSE IF ~ cont(s[3]) THEN bad
     ELSE IF sz = 3
          THEN [r |-> (s0 % 16) * 4096 + (s[2] % 64) * 64 + (s[3] % 64), size |-> 3]
     ELSE IF ~ cont(s[4]) THEN bad
     ELSE [r |-> (s0 % 8) * 262144 + (s[2] % 64) * 4096 + (s[3] % 64) * 64 + (s[4] % 64),
           size |-> 4]

\* A faulty variant of tryAddRuneSelf: the double quote taken for a byte to
\* copy.
tryAddRuneSelf_noQuote(enc, b) ==
  IF b >= 128 THEN [ok |-> FALSE, enc |-> enc]
  ELSE IF 32 <= b /\ b # 92 THEN [ok |-> TRUE, enc |-> appendByte(enc, b)]
  ELSE [ok |-> TRUE,
        enc |-> IF b = 92 THEN appendByte(appendByte(enc, 92), b)
                ELSE IF b = 10 THEN appendByte(appendByte(enc, 92), 110)
                ELSE IF b = 13 THEN appendByte(appendByte(enc, 92), 114)
                ELSE IF b = 9 THEN appendByte(appendByte(enc, 92), 116)
                ELSE appendString(enc, <<92, 117, 48, 48,
                                         Hex[(b \div 16) + 1], Hex[(b % 16) + 1]>>)]

\* tryAddRuneSelf: the escape of one byte below utf8.RuneSelf; [ok, enc].
tryAddRuneSelf(enc, b) ==
  IF b >= 128 THEN [ok |-> FALSE, enc |-> enc]
  ELSE IF 32 <= b /\ b # 92 /\ b # 34 THEN [ok |-> TRUE, enc |-> appendByte(enc, b)]
  ELSE [ok |-> TRUE,
        enc |-> IF b = 92 \/ b = 34 THEN appendByte(appendByte(enc, 92), b)
                ELSE IF b = 10 THEN appendByte(appendByte(enc, 92), 110)
                ELSE IF b = 13 THEN appendByte(appendByte(enc, 92), 114)
                ELSE IF b = 9 THEN appendByte(appendByte(enc, 92), 116)
                ELSE appendString(enc, <<92, 117, 48, 48,
                                         Hex[(b \div 16) + 1], Hex[(b % 16) + 1]>>)]

\* tryAddRuneError: the escape \ufffd for a byte that failed to decode; [ok, enc].
tryAddRuneError(enc, r, size) ==
  IF r = RuneError /\ size = 1
  THEN [ok |-> TRUE, enc |-> appendString(enc, <<92, 117, 102, 102, 102, 100>>)]
  ELSE [ok |-> FALSE, enc |-> enc]

\* The loop of safeAddString from byte i of s on.
RECURSIVE safeAddFrom(_, _, _)
safeAddFrom(enc, s, i) ==
  IF i > Len(s) THEN enc
  ELSE LET self == tryAddRuneSelf(enc, s[i]) IN
       IF self.ok THEN safeAddFrom(self.enc, s, i + 1)
       ELSE LET d == DecodeRuneInString(SubSeq(s, i, Len(s)))
                err == tryAddRuneError(enc, d.r, d.size)
            IN IF err.ok THEN safeAddFrom(err.enc, s, i + 1)
               ELSE safeAddFrom(appendString(enc, SubSeq(s, i, i + d.size - 1)), s, i + d.size)

safeAddString(enc, s) == safeAddFrom(enc, s, 1)

\* A faulty variant of AppendLeft: the two branches exchanged.
AppendLeft_swapped(enc) ==
  IF enc.left = TRUE THEN appendString(enc, <<44, 34>>)
  ELSE [buf |-> enc.buf \o <<34>>, left |-> FALSE]

\* AppendLeft: `"` and left = false when left is set, `,"` otherwise.
AppendLeft(enc) ==
  IF enc.left = TRUE THEN [buf |-> enc.buf \o <<34>>, left |-> FALSE]
  ELSE appendString(enc, <<44, 34>>)

\* The common head of the Add methods: AppendLeft, the escaped key, `": `.
addKey(enc, key) == appendString(safeAddString(AppendLeft(enc), key), <<34, 58, 32>>)

\* strconv.AppendBool
AddBool(enc, key, value) ==
  appendString(addKey(enc, key),
               IF value THEN <<116, 114, 117, 101>> ELSE <<102, 97, 108, 115, 101>>)

\* strconv.AppendInt(enc.buf, int64(value), 10)
AddInt(enc, key, value) == appendString(addKey(enc, key), FormatInt(value))

AddInt32(enc, key, value) == appendString(addKey(enc, key), FormatInt(value))

\* strconv.AppendUint(enc.buf, uint64(value), 10)
AddUint32(enc, key, value) == appendString(addKey(enc, key), FormatUint(value))

AddInt64(enc, key, value) == appendString(addKey(enc, key), FormatInt(value))

AddUint64(enc, key, value) == appendString(addKey(enc, key), FormatUint(value))

AddInt8(enc, key, value) == appendString(addKey(enc, key), FormatInt(value))

\* AddUint8(key string, value int8): uint64(value) of an int8 keeps the
\* sign-extended pattern.
AddUint8(enc, key, value) == appendString(addKey(enc, key), FormatUint(value))

\* strconv.AppendFloat(enc.buf, float64(value), 'f', -1, 32) of a whole number.
AddFloat32(enc, key, value) == appendString(addKey(enc, key), FormatInt(value))

\* strconv.AppendFloat(enc.buf, value, 'f', -1, 64) of a whole number.
AddFloat64(enc, key, value) == appendString(addKey(enc, key), FormatInt(value))

AddString(enc, key, value) ==
  appendByte(safeAddString(appendByte(addKey(enc, key), 34), value), 34)

\* AddInterface is called by Field.AddTo and defined in no file at hand: the
\* key, as the other Add methods write it, and the generic rendering of the
\* value.
AddInterface(enc, key, value) == appendString(addKey(enc, key), DefaultText(value))

\* Field.AddTo: the switch on f.Type, with the conversion each case applies
\* to f.Integer; a Type with no case adds nothing.
AddTo(f, enc) ==
  IF f.Type = "BoolType" THEN AddBool(enc, f.Key, f.Interface.bool)
  ELSE IF f.Type = "IntType" THEN AddInt(enc, f.Key, f.Integer)
  ELSE IF f.Type = "Int32Type" THEN AddInt32(enc, f.Key, ToInt32(f.Integer))
  ELSE IF f.Type = "Uint32Type" THEN AddUint32(enc, f.Key, ToUint32(f.Integer))
  ELSE IF f.Type = "Int64Type" THEN AddInt64(enc, f.Key, f.Integer)
  ELSE IF f.Type = "Uint64Type" THEN AddUint64(enc, f.Key, f.Integer)
  ELSE IF f.Type = "Int8Type" THEN AddInt8(enc, f.Key, ToInt8(f.Integer))
  ELSE IF f.Type = "Uint8Type" THEN AddUint8(enc, f.Key, ToInt8(f.Integer))
  ELSE IF f.Type = "Float32Type" THEN AddFloat32(enc, f.Key, f.Interface.num)
  ELSE IF f.Type = "Float64Type" THEN AddFloat64(enc, f.Key, f.Interface.num)
  ELSE IF f.Type = "StringType" THEN AddString(enc, f.Key, f.String)
  ELSE IF f.Type = "InterfaceType" THEN AddInterface(enc, f.Key, f.Interface)
  ELSE enc

\* Whether Field.AddTo panics on f: a type assertion on f.Interface that the
\* dynamic type does not meet.
AddToPanics(f) ==
  \/ f.Type = "BoolType" /\ f.Interface.dyn # "bool"
  \/ f.Type = "Float32Type" /\ f.Interface.dyn # "float32"
  \/ f.Type = "Float64Type" /\ f.Interface.dyn # "float64"

\* fmt.Sprintf("\"%04d-%02d-%02d %02d:%02d:%02d.%05d\"", ...) of the parts of
\* record.Created, the last being Nanosecond()/10000.
FormatTime(t) ==
  <<34>> \o ZeroPad(Digits(t.Year), 4) \o <<45>> \o ZeroPad(Digits(t.Month), 2) \o <<45>>
  \o ZeroPad(Digits(t.Day), 2) \o <<32>> \o ZeroPad(Digits(t.Hour), 2) \o <<58>>
  \o ZeroPad(Digits(t.Minute), 2) \o <<58>> \o ZeroPad(Digits(t.Second), 2) \o <<46>>
  \o ZeroPad(Digits(t.Nanosecond \div 10000), 5) \o <<34>>

\* The loop of EncodeJson over record.Fields from field i on.
RECURSIVE addFields(_, _, _)
addFields(enc, fields, i) ==
  IF i > Len(fields) THEN enc
  ELSE IF fields[i].Type = "UnknownType" THEN addFields(enc, fields, i + 1)
  ELSE addFields(AddTo(fields[i], enc), fields, i + 1)

\* Whether EncodeJson panics on the record: in Level.String, or in a type
\* assertion of Field.AddTo.
EncodePanics(record) ==
  \/ LevelString(record.Level) = PANIC
  \/ \E i \in DOMAIN record.Fields : AddToPanics(record.Fields[i])

\* EncodeJson: the encoder after the call; the call returns string(enc.buf).
EncodeJson(enc, record) ==
  LET e1 == appendString(appendByte(enc, 123), <<34, 116, 105, 109, 101, 34, 58>>)
      e2 == appendString(e1, FormatTime(record.Created))
      e3 == appendString(e2, <<44, 34, 109, 101, 115, 115, 97, 103, 101, 34, 58>>)
      e4 == appendString(e3, <<34>> \o record.Message \o <<34>>)
      e5 == appendString(e4, <<44, 34, 108, 101, 118, 101, 108, 34, 58>>)
      e6 == appendString(e5, <<34>> \o LevelString(record.Level) \o <<34>>)
      e7 == appendString(e6, <<44, 34, 102, 105, 108, 101, 34, 58>>)
      e8 == appendString(e7, <<34>> \o record.Source \o <<34>>)
      e9 == addFields(e8, record.Fields, 1)
  IN IF EncodePanics(record) THEN [enc EXCEPT !.buf = PANIC]
     ELSE appendByte(appendByte(e9, 125), 10)

\* The operand EncodeString hands to Sprintf for a field, and its placeholder.
stringArg(f) ==
  IF f.Type \in {"Int32Type", "Uint32Type", "Int8Type", "Uint8Type", "Int64Type", "Uint64Type",
                 "IntType"}
  THEN [verb |-> 100, arg |-> NumValue("int64", f.Integer)]
  ELSE IF f.Type = "StringType" THEN [verb |-> 115, arg |-> StringValue(f.String)]
  ELSE IF f.Type = "BoolType" THEN [verb |-> 116, arg |-> f.Interface]
  ELSE [verb |-> 118, arg |-> f.Interface]

\* The loop of EncodeString over record.Fields from field i on: the encoder
\* and the operands collected.
RECURSIVE stringFields(_, _, _, _)
stringFields(enc, args, fields, i) ==
  IF i > Len(fields) THEN [enc |-> enc, args |-> args]
  ELSE IF fields[i].Type = "UnknownType" THEN stringFields(enc, args, fields, i + 1)
  ELSE LET sa == stringArg(fields[i])
           e1 == appendString(enc, fields[i].Key \o <<58>>)
           e2 == appendString(e1, <<37, sa.verb>>)
       IN stringFields(appendByte(e2, 32), Append(args, sa.arg), fields, i + 1)

\* EncodeString: the encoder after the call and the string the call returns.
EncodeString(enc, record) ==
  IF Len(record.Fields) <= 0 THEN [enc |-> enc, out |-> record.Message]
  ELSE LET e1 == appendByte(appendString(enc, record.Message), 32)
           r == stringFields(e1, <<>>, record.Fields, 1)
       IN [enc |-> r.enc, out |-> SprintfValues(r.enc.buf, r.args)]

\* A faulty variant of ResetEncoder: the buffer handed back as it is.
ResetEncoder_keep(enc) == enc

\* putJsonEncoder: enc.buf = enc.buf[0:0:cap(enc.buf)]
ResetEncoder(enc) == [enc EXCEPT !.buf = <<>>]

(***************************************************************************)
(* Reading a JSON line back (what a JSON decoder makes of the bytes)       *)
(***************************************************************************)
\* U+FFFD in UTF-8.
ReplacementBytes == <<239, 191, 189>>

JsonFail == [ok |-> FALSE, value |-> <<>>, next |-> 0]

\* The value of a hexadecimal digit, -1 for any other byte.
hexVal(b) ==
  IF 48 <= b /\ b <= 57 THEN b - 48
  ELSE IF 97 <= b /\ b <= 102 THEN b - 87
  ELSE IF 65 <= b /\ b <= 70 THEN b - 55
  ELSE 0 - 1

\* The UTF-8 bytes of a code point of the basic plane; a surrogate decodes to
\* U+FFFD.
utf8Bytes(cp) ==
  IF cp < 128 THEN <<cp>>
  ELSE IF cp < 2048 THEN <<192 + (cp \div 64), 128 + (cp % 64)>>
  ELSE IF 55296 <= cp /\ cp <= 57343 THEN ReplacementBytes
  ELSE <<224 + (cp \div 4096), 128 + ((cp \div 64) % 64), 128 + (cp % 64)>>

\* A JSON string literal whose opening quote is before byte i: its value and
\* the position after its closing quote.  A raw control byte or a bad escape
\* makes it invalid; bytes that are not UTF-8 decode to U+FFFD.
RECURSIVE unquoteFrom(_, _, _)
unquoteFrom(s, i, acc) ==
  IF i > Len(s) THEN JsonFail
  ELSE LET b == s[i] IN
    IF b = 34 THEN [ok |-> TRUE, value |-> acc, next |-> i + 1]
    ELSE IF b < 32 THEN JsonFail
    ELSE IF b = 92 THEN
      IF i + 1 > Len(s) THEN JsonFail
      ELSE LET c == s[i + 1] IN
        IF c = 34 \/ c = 92 \/ c = 47 THEN unquoteFrom(s, i + 2, Append(acc, c))
        ELSE IF c = 98 THEN unquoteFrom(s, i + 2, Append(acc, 8))
        ELSE IF c = 102 THEN unquoteFrom(s, i + 2, Append(acc, 12))
        ELSE IF c = 110 THEN unquoteFrom(s, i + 2, Append(acc, 10))
        ELSE IF c = 114 THEN unquoteFrom(s, i + 2, Append(acc, 13))
        ELSE IF c = 116 THEN unquoteFrom(s, i + 2, Append(acc, 9))
        ELSE IF c = 117 /\ i + 5 <= Len(s)
                /\ \A k \in 2..5 : hexVal(s[i + k]) >= 0
             THEN unquoteFrom(s, i + 6,
                    acc \o utf8Bytes(hexVal(s[i + 2]) * 4096 + hexVal(s[i + 3]) * 256
                                     + hexVal(s[i + 4]) * 16 + hexVal(s[i + 5])))
        ELSE JsonFail
    ELSE IF b < 128 THEN unquoteFrom(s, i + 1, Append(acc, b))
    ELSE LET d == DecodeRuneInString(SubSeq(s, i, Len(s))) IN
         IF d.r = RuneError /\ d.size = 1
         THEN unquoteFrom(s, i + 1, acc \o ReplacementBytes)
         ELSE unquoteFrom(s, i + d.size, acc \o SubSeq(s, i, i + d.size - 1))

\* The position after the run of decimal digits that starts at i.
RECURSIVE skipDigits(_, _)
skipDigits(s, i) ==
  IF i <= Len(s) /\ 48 <= s[i] /\ s[i] <= 57 THEN skipDigits(s, i + 1) ELSE i

\* The position after the run of spaces that starts at i.
RECURSIVE skipSpace(_, _)
skipSpace(s, i) == IF i <= Len(s) /\ s[i] = 32 THEN skipSpace(s, i + 1) ELSE i

HasAt(s, i, lit) == i + Len(lit) - 1 <= Len(s) /\ SubSeq(s, i, i + Len(lit) - 1) = lit

\* A JSON value at i: a string (its text in value), an integer, true or false.
jsonValue(s, i) ==
  IF i > Len(s) THEN JsonFail
  ELSE IF s[i] = 34 THEN unquoteFrom(s, i + 1, <<>>)
  ELSE IF HasAt(s, i, <<116, 114, 117, 101>>) THEN [ok |-> TRUE, value |-> <<>>, next |-> i + 4]
  ELSE IF HasAt(s, i, <<102, 97, 108, 115, 101>>) THEN [ok |-> TRUE, value |-> <<>>, next |-> i + 5]
  ELSE LET j == IF s[i] = 45 THEN i + 1 ELSE i
           k == skipDigits(s, j)
       IN IF k > j THEN [ok |-> TRUE, value |-> <<>>, next |-> k] ELSE JsonFail

\* The members of a JSON object from the key at i on, up to the closing brace
\* and the newline that ends the line; value is the text of the "message"
\* member, found is whether there was one.
RECURSIVE jsonMembers(_, _, _, _)
jsonMembers(s, i, found, msg) ==
  IF i > Len(s) \/ s[i] # 34 THEN JsonFail
  ELSE LET key == unquoteFrom(s, i + 1, <<>>) IN
    IF ~ key.ok THEN JsonFail
    ELSE LET c == skipSpace(s, key.next) IN
      IF c > Len(s) \/ s[c] # 58 THEN JsonFail
      ELSE LET v == jsonValue(s, skipSpace(s, c + 1)) IN
        IF ~ v.ok THEN JsonFail
        ELSE LET isMsg == key.value = <<109, 101, 115, 115, 97, 103, 101>>
                 f == found \/ isMsg
                 m == IF isMsg THEN v.value ELSE msg
                 e == skipSpace(s, v.next)
             IN IF e > Len(s) THEN JsonFail
                ELSE IF s[e] = 44 THEN jsonMembers(s, skipSpace(s, e + 1), f, m)
                ELSE IF s[e] = 125 /\ e + 1 = Len(s) /\ s[e + 1] = 10 /\ f
                     THEN [ok |-> TRUE, value |-> m, next |-> e + 2]
                ELSE JsonFail

\* The "message" member of the JSON line s, when s is a JSON object.
JsonMessage(s) ==
  IF Len(s) > 1 /\ s[1] = 123 THEN jsonMembers(s, 2, FALSE, <<>>) ELSE JsonFail

\* A text with every byte that is not part of a UTF-8 sequence replaced by
\* U+FFFD.
RECURSIVE ReplaceInvalid(_)
ReplaceInvalid(s) ==
  IF s = <<>> THEN <<>>
  ELSE LET d == DecodeRuneInString(s) IN
       IF d.r = RuneError /\ d.size = 1
       THEN ReplacementBytes \o ReplaceInvalid(Tail(s))
       ELSE SubSeq(s, 1, d.size) \o ReplaceInvalid(SubSeq(s, d.size + 1, Len(s)))

(***************************************************************************)
(* The dispatch engine as a state machine: one Logger, called by one       *)
(* caller at a time; and one encoder, used by one writer at a time.        *)
(***************************************************************************)
VARIABLES
  log,         \* the Logger: name -> Filter
  op,          \* the last call: its method and arguments
  writes,      \* the LogWrite calls the last call made on each filter
  closes,      \* how often the last call called each writer's Close
  formats,     \* how often the last call formatted a message with fmt.Sprintf
  callers,     \* how often the last call resolved the call site
  closures,    \* how often the last call ran the closure it was given
  allocs,      \* how many LogRecords the last call allocated
  closed,      \* history: Logger.Close closed this writer and AddFilter has not
               \* registered it since
  sinceClose,  \* history: calls made since the last Logger.Close, capped
  replaced,    \* history: the writer the last AddFilter took a name from, if any
  enc,         \* the encoder: its buffer and its `left` flag
  record,      \* the record the encoder was last given
  output,      \* the string the encoder last returned
  encoders,    \* the jsonEncoder instances jsonEncoderPool has made, by instance
  phase,       \* where each instance is: not made yet, in the pool, taken, used
  last,        \* history: the last encoding each instance made
  recycled,    \* history: the instance was last taken out of the pool, not made
  recs,        \* the LogRecord instances LogRecordPool has made, by instance
  recPhase,    \* where each instance is: not made yet, in the pool, taken
  recArgs,     \* history: what the GetLogRecord that last returned it was given
  recBefore,   \* history: what the one before that was given
  pc,          \* where each concurrent caller is in its dispatch call
  plvl,        \* the level of that call
  iter,        \* the filters its current range loop has yet to visit
  skip,        \* its local variable skip
  got,         \* how many LogWrite calls it has made on each filter
  seen,        \* history: the Logger as it was when the call began
  fn,          \* the function last applied on its own
  arg,         \* what it was applied to
  ret          \* what it returned

logVars ==
  <<log, op, writes, closes, formats, callers, closures, allocs, closed, sinceClose, replaced>>

encVars == <<enc, record, output>>

encPoolVars == <<encoders, phase, last, recycled>>

\* The variables of the pools and of the other parts below.
fnVars == <<fn, arg, ret>>

recPoolVars == <<recs, recPhase, recArgs, recBefore>>

concVars == <<pc, plvl, iter, skip, got, seen>>

auxVars == <<encPoolVars, recPoolVars, concVars, fnVars>>

vars == <<logVars, encVars, auxVars>>

\* sinceClose stops counting above this.
MaxSinceClose == 2

\* The thresholds AddFilter is called with.
Thresholds == {INFO, ERROR}

\* The levels Logf, Logc and Log are called with.
ManualLevels == {TRACE, INFO, WARNING, ERROR, CRITICAL}

\* "disk %s", "100%"
Templates == { <<100, 105, 115, 107, 32, 37, 115>>, <<49, 48, 48, 37>> }

\* no arguments, ("full")
ArgLists == { <<>>, << <<102, 117, 108, 108>> >> }

\* "start", "msg"
Messages == { <<115, 116, 97, 114, 116>>, <<109, 115, 103>> }

\* "a.go"
Sources == { <<97, 46, 103, 111>> }

\* {port: int32 8080}, {ok: bool true}
PortOk == << Int32(<<112, 111, 114, 116>>, FromInt(8080)), Bool(<<111, 107>>, TRUE) >>

FieldLists == { <<>>, PortOk }

\* What runtime.Caller(2) may return: "main.go", line 42, or ok = false.
CallerResults ==
  { [ok |-> TRUE, file |-> <<109, 97, 105, 110, 46, 103, 111>>, line |-> 42],
    [ok |-> FALSE, file |-> <<>>, line |-> 0] }

\* What time.Now() may return.
Times == { Time(7, 120000) }

Call(kind, lvl, name, writer, format, args) ==
  [kind |-> kind, lvl |-> lvl, name |-> name, writer |-> writer, format |-> format, args |-> args]

FormatStyle ==
  {"Logf", "Finestf", "Finef", "Debugf", "Tracef", "Infof", "Warnf", "Errorf", "Criticalf"}

Structured == {"Debug", "Info", "Warn", "Error"}

DispatchKinds == FormatStyle \cup Structured \cup {"Logc", "Log"}

\* &LogRecord{}
NoRecord == LogRecord(FINEST, ZeroTime, <<>>, <<>>, FALSE, <<>>)

\* jsonEncoderPool makes at most this many instances.
MaxEncoders == 2

EncoderIds == 1..MaxEncoders

\* The argument of an application, by the kind of function: a record for
\* EncodeString, a level for Level.String, a text for safeAddString, a value
\* for a construction helper (with its decimal numeral, for an integer one).
NoArg ==
  [rec |-> NoRecord, lvl |-> FINEST, text |-> <<>>, helper |-> "", value |-> Nil,
   numeral |-> <<>>]

\* The result of an application: a text, or the Field a helper built, whether
\* Field.AddTo panics on it, and the JSON rendering of the Field.
NoRet == [text |-> <<>>, field |-> UnknownField(<<>>), panics |-> FALSE, json |-> <<>>]

\* At most this many goroutines call the Logger at a time.
MaxCallers == 2

Callers == 1..MaxCallers

NoneGot == [n \in Names |-> 0]

\* LogRecordPool makes at most this many instances.
MaxRecords == 2

RecordIds == 1..MaxRecords

NoEncoding == [mode |-> "none", rec |-> NoRecord, out |-> <<>>]

Init ==
  /\ log = EmptyLogger
  /\ op = Call("make", FINEST, "", "", <<>>, <<>>)
  /\ writes = NoWrites
  /\ closes = NoCloses
  /\ formats = 0
  /\ callers = 0
  /\ closures = 0
  /\ allocs = 0
  /\ closed = [w \in Writers |-> FALSE]
  /\ sinceClose = MaxSinceClose + 1
  /\ replaced = ""
  /\ enc = newJsonEncoder
  /\ record = NoRecord
  /\ output = <<>>
  /\ encoders = [i \in EncoderIds |-> newJsonEncoder]
  /\ phase = [i \in EncoderIds |-> "unmade"]
  /\ last = [i \in EncoderIds |-> NoEncoding]
  /\ recycled = [i \in EncoderIds |-> FALSE]
  /\ recs = [i \in RecordIds |-> NoRecord]
  /\ recPhase = [i \in RecordIds |-> "unmade"]
  /\ recArgs = [i \in RecordIds |-> NoRecord]
  /\ recBefore = [i \in RecordIds |-> NoRecord]
  /\ pc = [p \in Callers |-> "idle"]
  /\ plvl = [p \in Callers |-> FINEST]
  /\ iter = [p \in Callers |-> {}]
  /\ skip = [p \in Callers |-> TRUE]
  /\ got = [p \in Callers |-> NoneGot]
  /\ seen = [p \in Callers |-> EmptyLogger]
  /\ fn = "none"
  /\ arg = NoArg
  /\ ret = NoRet

Count == IF sinceClose > MaxSinceClose THEN sinceClose ELSE sinceClose + 1

\* A dispatch call: eager is the number of fmt.Sprintf calls its public method
\* makes before it enters the internal one.
Dispatch(call, eager, eff) ==
  /\ op' = call
  /\ writes' = eff.writes
  /\ formats' = eager + eff.formats
  /\ callers' = eff.callers
  /\ closures' = eff.closures
  /\ allocs' = eff.allocs
  /\ closes' = NoCloses
  /\ sinceClose' = Count
  /\ UNCHANGED <<log, closed, replaced>>
  /\ UNCHANGED <<encVars, auxVars>>

AddFilter ==
  \E name \in Names, lvl \in Thresholds, writer \in Writers :
    LET r == Upsert(log, name, lvl, writer) IN
    /\ log' = r.log
    /\ closes' = r.closes
    /\ closed' = [w \in Writers |-> IF w = writer THEN FALSE ELSE closed[w] \/ r.closes[w] > 0]
    /\ op' = Call("AddFilter", lvl, name, writer, <<>>, <<>>)
    /\ writes' = NoWrites
    /\ formats' = 0 /\ callers' = 0 /\ closures' = 0 /\ allocs' = 0
    /\ sinceClose' = Count
    /\ replaced' = IF name \in DOMAIN log /\ log[name].LogWriter # writer
                   THEN log[name].LogWriter ELSE ""
    /\ UNCHANGED <<encVars, auxVars>>

Close ==
  LET r == CloseAll(log) IN
  /\ log' = r.log
  /\ closes' = r.closes
  /\ closed' = [w \in Writers |-> closed[w] \/ r.closes[w] > 0]
  /\ op' = Call("Close", FINEST, "", "", <<>>, <<>>)
  /\ writes' = NoWrites
  /\ formats' = 0 /\ callers' = 0 /\ closures' = 0 /\ allocs' = 0
  /\ sinceClose' = 0
  /\ replaced' = ""
  /\ UNCHANGED <<encVars, auxVars>>

\* The methods that pass their arguments on to intLogf unchanged.
Forwardf(kind, lvl) ==
  \E format \in Templates, args \in ArgLists, caller \in CallerResults, now \in Times :
    Dispatch(Call(kind, lvl, "", "", format, args), 0,
             intLogf(log, lvl, format, args, caller, now))

\* Warnf, Errorf and Criticalf: log.intLogf(lvl, fmt.Sprintf(arg0, args...)).
Eagerf(kind, lvl) ==
  \E arg0 \in Templates, args \in ArgLists, caller \in CallerResults, now \in Times :
    Dispatch(Call(kind, lvl, "", "", arg0, args), 1,
             intLogf(log, lvl, Sprintf(arg0, args), <<>>, caller, now))

Logf == \E lvl \in ManualLevels : Forwardf("Logf", lvl)
Finestf == Forwardf("Finestf", FINEST)
Finef == Forwardf("Finef", FINE)
Debugf == Forwardf("Debugf", DEBUG)
Tracef == Forwardf("Tracef", TRACE)
Infof == Forwardf("Infof", INFO)
Warnf == Eagerf("Warnf", WARNING)
Errorf == Eagerf("Errorf", ERROR)
Criticalf == Eagerf("Criticalf", CRITICAL)

Logc ==
  \E lvl \in ManualLevels, closure \in Messages, caller \in CallerResults, now \in Times :
    Dispatch(Call("Logc", lvl, "", "", closure, <<>>), 0,
             intLogc(log, lvl, closure, caller, now))

Log ==
  \E lvl \in ManualLevels, source \in Sources, message \in Messages, now \in Times :
    Dispatch(Call("Log", lvl, "", "", message, <<>>), 0,
             LogManual(log, lvl, source, message, now))

JsonStyle(kind, lvl) ==
  \E message \in Messages, field \in FieldLists, caller \in CallerResults, now \in Times :
    Dispatch(Call(kind, lvl, "", "", message, <<>>), 0,
             intLogJson(log, lvl, message, field, caller, now))

Debug == JsonStyle("Debug", DEBUG)
Info == JsonStyle("Info", INFO)
Warn == JsonStyle("Warn", WARNING)
Error == JsonStyle("Error", ERROR)

Next ==
  \/ AddFilter \/ Close
  \/ Logf \/ Finestf \/ Finef \/ Debugf \/ Tracef \/ Infof
  \/ Warnf \/ Errorf \/ Criticalf
  \/ Logc \/ Log
  \/ Debug \/ Info \/ Warn \/ Error

Spec == Init /\ [][Next]_vars

(***************************************************************************)
(* The encoder as a state machine: a writer takes the encoder with an      *)
(* empty buffer, encodes one record and puts the encoder back.             *)
(***************************************************************************)
\* Messages are the texts of at most this many bytes over MessageBytes.
MaxMessageLen == 2

\* 'a', '"', '\', newline, the control byte 0x01, the byte 0xFF (never part of
\* UTF-8), and 0xC3 0xA9 (the UTF-8 of U+00E9)
MessageBytes == {97, 34, 92, 10, 1, 255, 195, 169}

RECURSIVE TextsUpTo(_)
TextsUpTo(n) ==
  IF n = 0 THEN {<<>>}
  ELSE LET shorter == TextsUpTo(n - 1)
       IN shorter \cup {Append(t, b) : t \in shorter, b \in MessageBytes}

EncMessages == TextsUpTo(MaxMessageLen) \cup Messages

\* {u: unknown}, {k: text a"}   and   {port: int32 -7}, {u: unknown}, {ok: bool false}
EncFieldLists ==
  FieldLists \cup
  { << UnknownField(<<117>>), String(<<107>>, <<97, 34>>) >>,
    << Int32(<<112, 111, 114, 116>>, FromInt(0 - 7)), UnknownField(<<117>>), Bool(<<111, 107>>, FALSE) >> }

\* "", "a.go:42"
EncSources == { <<>>, <<97, 46, 103, 111, 58, 52, 50>> }

EncRecords ==
  { LogRecord(lvl, created, source, message, fields # <<>>, fields) :
      lvl \in {INFO, ERROR}, created \in Times \cup {ZeroTime}, source \in EncSources,
      message \in EncMessages, fields \in EncFieldLists }

DoEncodeJson ==
  /\ enc.buf = <<>>
  /\ \E rec \in EncRecords :
       /\ record' = rec
       /\ enc' = EncodeJson(enc, rec)
       /\ output' = enc'.buf
  /\ UNCHANGED <<logVars, auxVars>>

putJsonEncoder ==
  /\ enc.buf # <<>>
  /\ enc' = ResetEncoder(enc)
  /\ record' = NoRecord
  /\ output' = <<>>
  /\ UNCHANGED <<logVars, auxVars>>

NextEnc == DoEncodeJson \/ putJsonEncoder

SpecEnc == Init /\ [][NextEnc]_vars

(***************************************************************************)
(* The encoder pool as a state machine: callers take an instance with      *)
(* getJsonEncoder, encode one record with it and hand it back with         *)
(* putJsonEncoder.  sync.Pool hands out an instance it was given back or,  *)
(* when it likes, a new one.                                               *)
(***************************************************************************)
\* "m", "up"
PoolMessages == { <<109>>, <<117, 112>> }

\* no fields; {port: int32 8080}, {ok: bool true}
PoolFieldLists == { <<>>, PortOk }

PoolRecords ==
  { LogRecord(INFO, created, <<97, 46, 103, 111, 58, 52, 50>>, message, fields # <<>>, fields) :
      created \in Times, message \in PoolMessages, fields \in PoolFieldLists }

\* getJsonEncoder: jsonEncoderPool.Get() returns a pooled instance, or the
\* result of New.
PoolGet ==
  /\ \E i \in EncoderIds :
       \/ /\ phase[i] = "pooled"
          /\ phase' = [phase EXCEPT ![i] = "taken"]
          /\ recycled' = [recycled EXCEPT ![i] = TRUE]
          /\ UNCHANGED encoders
       \/ /\ phase[i] = "unmade"
          /\ phase' = [phase EXCEPT ![i] = "taken"]
          /\ encoders' = [encoders EXCEPT ![i] = newJsonEncoder]
          /\ UNCHANGED recycled
  /\ UNCHANGED <<last, logVars, encVars, recPoolVars, concVars, fnVars>>

PoolEncodeJson ==
  /\ \E i \in EncoderIds, rec \in PoolRecords :
       /\ phase[i] = "taken"
       /\ encoders' = [encoders EXCEPT ![i] = EncodeJson(encoders[i], rec)]
       /\ last' = [last EXCEPT ![i] = [mode |-> "json", rec |-> rec, out |-> encoders'[i].buf]]
       /\ phase' = [phase EXCEPT ![i] = "used"]
  /\ UNCHANGED <<recycled, logVars, encVars, recPoolVars, concVars, fnVars>>

PoolEncodeString ==
  /\ \E i \in EncoderIds, rec \in PoolRecords :
       LET r == EncodeString(encoders[i], rec) IN
       /\ phase[i] = "taken"
       /\ encoders' = [encoders EXCEPT ![i] = r.enc]
       /\ last' = [last EXCEPT ![i] = [mode |-> "string", rec |-> rec, out |-> r.out]]
       /\ phase' = [phase EXCEPT ![i] = "used"]
  /\ UNCHANGED <<recycled, logVars, encVars, recPoolVars, concVars, fnVars>>

\* putJsonEncoder: the buffer emptied, the instance back in the pool.
PoolPut ==
  /\ \E i \in EncoderIds :
       /\ phase[i] = "used"
       /\ encoders' = [encoders EXCEPT ![i] = ResetEncoder(encoders[i])]
       /\ phase' = [phase EXCEPT ![i] = "pooled"]
  /\ UNCHANGED <<last, recycled, logVars, encVars, recPoolVars, concVars, fnVars>>

NextEncPool == PoolGet \/ PoolEncodeJson \/ PoolEncodeString \/ PoolPut

SpecEncPool == Init /\ [][NextEncPool]_vars

(***************************************************************************)
(* The record pool as a state machine: GetLogRecord takes an instance out  *)
(* of LogRecordPool, or a new one, and fills it; PutLogRecord resets it    *)
(* and hands it back.                                                      *)
(***************************************************************************)
\* What GetLogRecord is called with, as the record a caller expects.
RecInputs ==
  { LogRecord(lvl, now, source, message, fields # <<>>, fields) :
      lvl \in {ERROR}, now \in Times, source \in Sources, message \in PoolMessages,
      fields \in FieldLists }

RecGet ==
  /\ \E i \in RecordIds, in \in RecInputs :
       /\ recPhase[i] \in {"pooled", "unmade"}
       /\ recs' = [recs EXCEPT ![i] =
                     GetLogRecord(IF recPhase[i] = "unmade" THEN NoRecord ELSE recs[i],
                                  in.Level, in.Created, in.Source, in.Message, in.Json,
                                  in.Fields)]
       /\ recPhase' = [recPhase EXCEPT ![i] = "taken"]
       /\ recArgs' = [recArgs EXCEPT ![i] = in]
       /\ recBefore' = [recBefore EXCEPT ![i] = recArgs[i]]
  /\ UNCHANGED <<logVars, encVars, encPoolVars, concVars, fnVars>>

RecPut ==
  /\ \E i \in RecordIds :
       /\ recPhase[i] = "taken"
       /\ recs' = [recs EXCEPT ![i] = PutLogRecord(recs[i])]
       /\ recPhase' = [recPhase EXCEPT ![i] = "pooled"]
  /\ UNCHANGED <<recArgs, recBefore, logVars, encVars, encPoolVars, concVars, fnVars>>

NextRecPool == RecGet \/ RecPut

SpecRecPool == Init /\ [][NextRecPool]_vars

(***************************************************************************)
(* Concurrent callers: several goroutines inside intLogf (or Log, whose    *)
(* two loops are the same) on one Logger, one loop iteration at a time.    *)
(* range over a map visits every entry once, in any order.  AddFilter is   *)
(* called only while no call is under way.                                 *)
(***************************************************************************)
\* The levels the concurrent callers log at.
ConcLevels == {DEBUG, WARNING}

\* AddFilter between calls; the calls that have returned are forgotten.
ConcAddFilter ==
  /\ \A p \in Callers : pc[p] \in {"idle", "done"}
  /\ \E name \in Names, lvl \in Thresholds, writer \in Writers :
       log' = Upsert(log, name, lvl, writer).log
  /\ pc' = [p \in Callers |-> "idle"]
  /\ plvl' = [p \in Callers |-> FINEST]
  /\ got' = [p \in Callers |-> NoneGot]
  /\ seen' = [p \in Callers |-> EmptyLogger]
  /\ UNCHANGED <<iter, skip>>
  /\ UNCHANGED <<op, writes, closes, formats, callers, closures, allocs, closed, sinceClose,
                 replaced, encVars, encPoolVars, recPoolVars, fnVars>>

ConcOthers ==
  UNCHANGED <<op, writes, closes, formats, callers, closures, allocs, closed, sinceClose,
              replaced, encVars, encPoolVars, recPoolVars, fnVars>>

\* The call is entered: skip := true, and the first loop starts.
ConcBegin(p) ==
  /\ pc[p] \in {"idle", "done"}
  /\ \E lvl \in ConcLevels : plvl' = [plvl EXCEPT ![p] = lvl]
  /\ pc' = [pc EXCEPT ![p] = "check"]
  /\ iter' = [iter EXCEPT ![p] = DOMAIN log]
  /\ skip' = [skip EXCEPT ![p] = TRUE]
  /\ got' = [got EXCEPT ![p] = NoneGot]
  /\ seen' = [seen EXCEPT ![p] = log]
  /\ UNCHANGED log
  /\ ConcOthers

\* One iteration of the first loop, or its end: return when skip, else make
\* the record and start the second loop.
ConcCheck(p) ==
  /\ pc[p] = "check"
  /\ \/ /\ iter[p] = {}
        /\ pc' = [pc EXCEPT ![p] = IF skip[p] THEN "done" ELSE "dispatch"]
        /\ iter' = [iter EXCEPT ![p] = IF skip[p] THEN {} ELSE DOMAIN log]
        /\ UNCHANGED skip
     \/ \E n \in iter[p] \cap DOMAIN log :
          IF plvl[p] >= log[n].Level
          THEN /\ skip' = [skip EXCEPT ![p] = FALSE]
               /\ pc' = [pc EXCEPT ![p] = "dispatch"]
               /\ iter' = [iter EXCEPT ![p] = DOMAIN log]
          ELSE /\ iter' = [iter EXCEPT ![p] = iter[p] \ {n}]
               /\ UNCHANGED <<skip, pc>>
  /\ UNCHANGED <<log, plvl, got, seen>>
  /\ ConcOthers

\* One iteration of the second loop, or its end.  An entry deleted before the
\* loop reaches it is not visited.
ConcDispatch(p) ==
  /\ pc[p] = "dispatch"
  /\ \/ /\ iter[p] \cap DOMAIN log = {}
        /\ pc' = [pc EXCEPT ![p] = "done"]
        /\ iter' = [iter EXCEPT ![p] = {}]
        /\ UNCHANGED <<got, log>>
     \/ \E n \in iter[p] \cap DOMAIN log :
          /\ iter' = [iter EXCEPT ![p] = iter[p] \ {n}]
          /\ UNCHANGED pc
          /\ IF plvl[p] < log[n].Level
             THEN UNCHANGED <<got, log>>
             ELSE /\ got' = [got EXCEPT ![p][n] = @ + 1]
                  /\ log' = afterLogWrite(log, n)
  /\ UNCHANGED <<plvl, skip, seen>>
  /\ ConcOthers

ConcCall == \E p \in Callers : ConcBegin(p) \/ ConcCheck(p) \/ ConcDispatch(p)

NextConc == ConcAddFilter \/ ConcCall

SpecConc == Init /\ [][NextConc]_vars

(***************************************************************************)
(* The functions that depend on no state, each applied to inputs of its    *)
(* parameter types.                                                        *)
(***************************************************************************)
\* The values of type Level that Level.String is applied to: the eight levels
\* and this many values below and above them.
LevelMargin == 3

LevelInputs == (FINEST - LevelMargin)..(CRITICAL + LevelMargin)

\* "m", "n=%d"
TextMessages == { <<109>>, <<110, 61, 37, 100>> }

\* no fields; {port: int32 8080}, {ok: bool true}; {k: text v};
\* {u: unknown}, {n: int8 -3}; {u: unknown}; {f: float64 2}, {a: Any(nil)}
TextFieldLists ==
  { <<>>, PortOk,
    << String(<<107>>, <<118>>) >>,
    << UnknownField(<<117>>), Int8(<<110>>, FromInt(0 - 3)) >>,
    << UnknownField(<<117>>) >>,
    << Float64(<<102>>, FromInt(2)), AnyField(<<97>>, Nil) >> }

TextRecords ==
  { LogRecord(lvl, created, <<>>, message, FALSE, fields) :
      lvl \in {INFO}, created \in Times, message \in TextMessages, fields \in TextFieldLists }

\* One application: f applied to a returned r.
Apply(f, a, r) ==
  /\ fn = "none"
  /\ fn' = f
  /\ arg' = a
  /\ ret' = r
  /\ UNCHANGED <<logVars, encVars, encPoolVars, recPoolVars, concVars>>

CallEncodeString ==
  \E rec \in TextRecords :
    Apply("EncodeString", [NoArg EXCEPT !.rec = rec],
          [NoRet EXCEPT !.text = EncodeString(newJsonEncoder, rec).out])

CallLevelString ==
  \E l \in LevelInputs :
    Apply("Level.String", [NoArg EXCEPT !.lvl = l], [NoRet EXCEPT !.text = LevelString(l)])

\* The texts safeAddString is applied to are those of at most this many bytes
\* over EscBytes, and EscLongTexts.
MaxEscLen == 2

\* 'a', '"', '\', newline, carriage return, tab, 0x01, 0x1F, 0x7F; 0xFF and
\* 0x80, which start no UTF-8 sequence; 0xC3 0xA9 (U+00E9); 0xE2 and 0xF0,
\* which start sequences of three and four bytes
EscBytes == {97, 34, 92, 10, 13, 9, 1, 31, 127, 255, 128, 195, 169, 226, 240}

RECURSIVE EscTextsUpTo(_)
EscTextsUpTo(n) ==
  IF n = 0 THEN {<<>>}
  ELSE LET shorter == EscTextsUpTo(n - 1)
       IN shorter \cup {Append(t, b) : t \in shorter, b \in EscBytes}

\* a " \ newline CR tab 0x01 0xFF U+00E9 U+20AC
EscSampler == <<97, 34, 92, 10, 13, 9, 1, 255, 195, 169, 226, 130, 172>>

\* U+20AC, U+1F600, U+FFFD itself, each as UTF-8; the surrogate U+D800, the
\* overlong forms C0 80 and E0 80 80, and U+1F600 cut short, none of them
\* UTF-8; and EscSampler
EscLongTexts ==
  { <<226, 130, 172>>, <<240, 159, 152, 128>>, <<239, 191, 189>>,
    <<237, 160, 128>>, <<192, 128>>, <<224, 128, 128>>, <<240, 159, 152>>,
    <<97, 240, 159, 152, 34>>, EscSampler }

EscInputs == EscTextsUpTo(MaxEscLen) \cup EscLongTexts

CallSafeAddString ==
  \E s \in EscInputs :
    Apply("safeAddString", [NoArg EXCEPT !.text = s],
          [NoRet EXCEPT !.text = safeAddString(newJsonEncoder, s).buf])

\* The values the construction helpers other than the integer ones are
\* called with, as interface{} values of the parameter's type; for Any, values
\* of all the integer types, of string, bool and float64, and nil.
HelperCalls ==
  { [helper |-> "Bool", value |-> BoolValue(TRUE)],
    [helper |-> "Bool", value |-> BoolValue(FALSE)],
    [helper |-> "Float32", value |-> NumValue("float32", FromInt(2))],
    [helper |-> "Float64", value |-> NumValue("float64", FromInt(0 - 3))],
    [helper |-> "String", value |-> StringValue(<<118>>)],
    [helper |-> "Err", value |-> Nil],
    [helper |-> "Err", value |-> Dyn("error", FALSE, Zero64, <<98, 111, 111, 109>>)] }
  \cup { [helper |-> "Any", value |-> NumValue(t, FromInt(5))] :
           t \in SignedTypes \cup UnsignedTypes \cup {"float64"} }
  \cup { [helper |-> "Any", value |-> v] : v \in {StringValue(<<118>>), BoolValue(TRUE), Nil} }

\* The call helper(key, value) for a helper of HelperCalls or IntSamples.
ApplyHelper(helper, key, value) ==
  CASE helper = "Bool" -> Bool(key, value.bool)
    [] helper = "Int" -> IntField(key, value.num)
    [] helper = "Int8" -> Int8(key, value.num)
    [] helper = "Uint8" -> Uint8(key, value.num)
    [] helper = "Int32" -> Int32(key, value.num)
    [] helper = "Uint32" -> Uint32(key, value.num)
    [] helper = "Int64" -> Int64(key, value.num)
    [] helper = "Uint64" -> Uint64(key, value.num)
    [] helper = "Float32" -> Float32(key, value.num)
    [] helper = "Float64" -> Float64(key, value.num)
    [] helper = "String" -> String(key, value.text)
    [] helper = "Err" -> Err(value)
    [] helper = "Any" -> AnyField(key, value)

\* The type of the parameter of each integer helper.
ParamType(helper) ==
  CASE helper = "Int" -> "int"
    [] helper = "Int8" -> "int8"
    [] helper = "Uint8" -> "uint8"
    [] helper = "Int32" -> "int32"
    [] helper = "Uint32" -> "uint32"
    [] helper = "Int64" -> "int64"
    [] helper = "Uint64" -> "uint64"

\* The values the integer helpers are called with: the ends of the range of
\* the parameter's type and values between, each with its decimal numeral.
IntSamples ==
  { [helper |-> "Int", v |-> <<32768, 0, 0, 0>>,
     numeral |-> <<45, 57, 50, 50, 51, 51, 55, 50, 48, 51, 54, 56, 53, 52, 55, 55, 53, 56, 48, 56>>],
    [helper |-> "Int", v |-> <<65535, 65535, 65535, 65535>>,
     numeral |-> <<45, 49>>],
    [helper |-> "Int", v |-> <<0, 0, 0, 0>>,
     numeral |-> <<48>>],
    [helper |-> "Int", v |-> <<0, 0, 0, 1>>,
     numeral |-> <<49>>],
    [helper |-> "Int", v |-> <<0, 0, 32768, 0>>,
     numeral |-> <<50, 49, 52, 55, 52, 56, 51, 54, 52, 56>>],
    [helper |-> "Int", v |-> <<32767, 65535, 65535, 65535>>,
     numeral |-> <<57, 50, 50, 51, 51, 55, 50, 48, 51, 54, 56, 53, 52, 55, 55, 53, 56, 48, 55>>],
    [helper |-> "Int8", v |-> <<65535, 65535, 65535, 65408>>,
     numeral |-> <<45, 49, 50, 56>>],
    [helper |-> "Int8", v |-> <<65535, 65535, 65535, 65535>>,
     numeral |-> <<45, 49>>],
    [helper |-> "Int8", v |-> <<0, 0, 0, 0>>,
     numeral |-> <<48>>],
    [helper |-> "Int8", v |-> <<0, 0, 0, 127>>,
     numeral |-> <<49, 50, 55>>],
    [helper |-> "Uint8", v |-> <<0, 0, 0, 0>>,
     numeral |-> <<48>>],
    [helper |-> "Uint8", v |-> <<0, 0, 0, 127>>,
     numeral |-> <<49, 50, 55>>],
    [helper |-> "Uint8", v |-> <<0, 0, 0, 128>>,
     numeral |-> <<49, 50, 56>>],
    [helper |-> "Uint8", v |-> <<0, 0, 0, 200>>,
     numeral |-> <<50, 48, 48>>],
    [helper |-> "Uint8", v |-> <<0, 0, 0, 255>>,
     numeral |-> <<50, 53, 53>>],
    [helper |-> "Int32", v |-> <<65535, 65535, 32768, 0>>,
     numeral |-> <<45, 50, 49, 52, 55, 52, 56, 51, 54, 52, 56>>],
    [helper |-> "Int32", v |-> <<65535, 65535, 65535, 65529>>,
     numeral |-> <<45, 55>>],
    [helper |-> "Int32", v |-> <<0, 0, 0, 0>>,
     numeral |-> <<48>>],
    [helper |-> "Int32", v |-> <<0, 0, 0, 8080>>,
     numeral |-> <<56, 48, 56, 48>>],
    [helper |-> "Int32", v |-> <<0, 0, 32767, 65535>>,
     numeral |-> <<50, 49, 52, 55, 52, 56, 51, 54, 52, 55>>],
    [helper |-> "Uint32", v |-> <<0, 0, 0, 0>>,
     numeral |-> <<48>>],
    [helper |-> "Uint32", v |-> <<0, 0, 32768, 0>>,
     numeral |-> <<50, 49, 52, 55, 52, 56, 51, 54, 52, 56>>],
    [helper |-> "Uint32", v |-> <<0, 0, 65535, 65535>>,
     numeral |-> <<52, 50, 57, 52, 57, 54, 55, 50, 57, 53>>],
    [helper |-> "Int64", v |-> <<32768, 0, 0, 0>>,
     numeral |-> <<45, 57, 50, 50, 51, 51, 55, 50, 48, 51, 54, 56, 53, 52, 55, 55, 53, 56, 48, 56>>],
    [helper |-> "Int64", v |-> <<65535, 65535, 65535, 65535>>,
     numeral |-> <<45, 49>>],
    [helper |-> "Int64", v |-> <<0, 0, 0, 0>>,
     numeral |-> <<48>>],
    [helper |-> "Int64", v |-> <<32767, 65535, 65535, 65535>>,
     numeral |-> <<57, 50, 50, 51, 51, 55, 50, 48, 51, 54, 56, 53, 52, 55, 55, 53, 56, 48, 55>>],
    [helper |-> "Uint64", v |-> <<0, 0, 0, 0>>,
     numeral |-> <<48>>],
    [helper |-> "Uint64", v |-> <<32767, 65535, 65535, 65535>>,
     numeral |-> <<57, 50, 50, 51, 51, 55, 50, 48, 51, 54, 56, 53, 52, 55, 55, 53, 56, 48, 55>>],
    [helper |-> "Uint64", v |-> <<32768, 0, 0, 0>>,
     numeral |-> <<57, 50, 50, 51, 51, 55, 50, 48, 51, 54, 56, 53, 52, 55, 55, 53, 56, 48, 56>>],
    [helper |-> "Uint64", v |-> <<65535, 65535, 65535, 65535>>,
     numeral |-> <<49, 56, 52, 52, 54, 55, 52, 52, 48, 55, 51, 55, 48, 57, 53, 53, 49, 54, 49, 53>>] }

\* A helper builds a Field; Field.AddTo then panics or not.
CallHelper ==
  \E c \in HelperCalls \cup
           { [helper |-> x.helper, value |-> NumValue(ParamType(x.helper), x.v)] : x \in IntSamples } :
    LET f == ApplyHelper(c.helper, <<107>>, c.value)
    IN Apply("helper", [NoArg EXCEPT !.helper = c.helper, !.value = c.value],
             [NoRet EXCEPT !.field = f, !.panics = AddToPanics(f)])

\* An integer helper builds a Field under the key "k"; it is rendered by
\* Field.AddTo on a new encoder and by EncodeString in a record with the
\* message "m".
CallIntHelper ==
  \E x \in IntSamples :
    LET v == NumValue(ParamType(x.helper), x.v)
        f == ApplyHelper(x.helper, <<107>>, v)
    IN Apply("integer helper",
             [NoArg EXCEPT !.helper = x.helper, !.value = v, !.numeral = x.numeral],
             [NoRet EXCEPT
                !.field = f,
                !.json = AddTo(f, newJsonEncoder).buf,
                !.text = EncodeString(newJsonEncoder,
                                      LogRecord(INFO, ZeroTime, <<>>, <<109>>, FALSE, <<f>>)).out])

NextFn ==
  \/ CallEncodeString \/ CallLevelString \/ CallSafeAddString
  \/ CallHelper \/ CallIntHelper

SpecFn == Init /\ [][NextFn]_vars

(***************************************************************************)
(* Properties of the dispatch engine                                       *)
(***************************************************************************)
\* The LogWrite calls recorded in w for the filter under name n, and all of them.
WritesOf(w, n) == {w[n][i] : i \in DOMAIN w[n]}

AllWritesOf(w) == UNION {WritesOf(w, n) : n \in Names}

AllWrites == AllWritesOf(writes)

\* C1: a dispatch call at severity S calls LogWrite exactly once on every
\* binding whose threshold T has S >= T and not at all on a binding with S < T;
\* below every threshold, or with no binding, it calls no LogWrite.
C1_ThresholdDelivery ==
  op.kind \in DispatchKinds =>
    \A n \in Names :
      Len(writes[n]) = IF n \in DOMAIN log /\ op.lvl >= log[n].Level THEN 1 ELSE 0

\* C1's case: two bindings, one admitting the severity and one not.
C1_Witness ==
  /\ op.kind \in DispatchKinds
  /\ \E n, m \in DOMAIN log :
       /\ op.lvl >= log[n].Level /\ Len(writes[n]) = 1
       /\ op.lvl < log[m].Level /\ Len(writes[m]) = 0

\* C2: when no binding admits the severity, a format-style, closure-style or
\* structured dispatch method (Warnf, Errorf and Criticalf included) formats no
\* arguments, runs no closure, resolves no call site and allocates no LogRecord.
C2_SkipFast ==
  (op.kind \in DispatchKinds \ {"Log"} /\ \A n \in DOMAIN log : op.lvl < log[n].Level) =>
    formats = 0 /\ closures = 0 /\ callers = 0 /\ allocs = 0

\* C3: Logc runs its closure exactly once when some binding admits the
\* severity, however many do, and never when the call is skipped.
C3_ClosureOnce ==
  op.kind = "Logc" =>
    closures = IF \E n \in DOMAIN log : op.lvl >= log[n].Level THEN 1 ELSE 0

\* C3's case: a Logc call that two bindings admit.
C3_Witness ==
  /\ op.kind = "Logc"
  /\ Cardinality({n \in DOMAIN log : op.lvl >= log[n].Level}) = 2
  /\ closures = 1

DistinctWriters(lg) ==
  \A n, m \in DOMAIN lg : n # m => lg[n].LogWriter # lg[m].LogWriter

\* C4: Close on a Logger whose bindings hold distinct writers calls Close
\* exactly once on each registered writer and leaves no binding; an AddFilter
\* right after it, followed by a dispatch at an admitted severity, delivers
\* exactly one LogWrite, to the writer just added.
C4_CloseThenReuse ==
  [][ /\ (op'.kind = "Close" /\ DistinctWriters(log)) =>
           /\ \A w \in Writers :
                closes'[w] = IF \E n \in DOMAIN log : log[n].LogWriter = w THEN 1 ELSE 0
           /\ DOMAIN log' = {}
      /\ (sinceClose' = 2 /\ op.kind = "AddFilter" /\ op'.kind \in DispatchKinds
             /\ op'.lvl >= op.lvl) =>
           /\ DOMAIN log' = {op.name}
           /\ AllWritesOf(writes') = WritesOf(writes', op.name)
           /\ Len(writes'[op.name]) = 1
           /\ writes'[op.name][1].to = op.writer
    ]_vars

\* C4's case: a Close that closed a writer, then one AddFilter of another
\* writer, then a dispatch that reached it.
C4_Witness ==
  /\ sinceClose = 2
  /\ op.kind \in DispatchKinds
  /\ \E n \in DOMAIN log :
       /\ Len(writes[n]) = 1
       /\ ~ closed[log[n].LogWriter]
       /\ \E w \in Writers : closed[w]

\* C5: once Logger.Close has closed a writer, no later dispatch calls that
\* writer's LogWrite, unless AddFilter has registered the writer again.
C5_NoWriteAfterClose ==
  op.kind \in DispatchKinds => \A x \in AllWrites : ~ closed[x.to]

\* C5's case: a dispatch that delivers while a closed writer stays unregistered.
C5_Witness ==
  /\ op.kind \in DispatchKinds
  /\ AllWrites # {}
  /\ \E w \in Writers : closed[w]

\* C6: AddFilter(name, lvl, w) leaves exactly the binding {lvl, w} under name
\* and every other binding as it was, calls no Close, and is idempotent; a
\* writer it took the name from gets no LogWrite from later dispatches unless
\* it is bound under another name.
C6_Upsert ==
  [][ /\ op'.kind = "AddFilter" =>
           /\ DOMAIN log' = DOMAIN log \cup {op'.name}
           /\ log'[op'.name] = Filter(op'.lvl, op'.writer)
           /\ \A n \in DOMAIN log \ {op'.name} : log'[n] = log[n]
           /\ \A w \in Writers : closes'[w] = 0
           /\ Upsert(log', op'.name, op'.lvl, op'.writer).log = log'
      /\ (op'.kind \in DispatchKinds /\ replaced' # ""
             /\ \A n \in DOMAIN log' : log'[n].LogWriter # replaced') =>
           \A x \in AllWrites' : x.to # replaced'
    ]_vars

\* C6's case: a name was bound again with another writer, and a dispatch that
\* the new binding admits followed.
C6_Witness ==
  /\ op.kind \in DispatchKinds
  /\ replaced # ""
  /\ \A n \in DOMAIN log : log[n].LogWriter # replaced
  /\ AllWrites # {}

\* C7: within one dispatch call every admitting binding's LogWrite gets a
\* record of the same contents (severity, timestamp, source, message, Json
\* flag, fields), and the message is produced once, not once per binding.
C7_SameEvent ==
  op.kind \in DispatchKinds =>
    /\ \A x, y \in AllWrites : x.rec = y.rec
    /\ formats <= 1
    /\ closures <= 1

\* C7's case: a structured call with fields delivered to two bindings.
C7_Witness ==
  /\ op.kind \in Structured
  /\ \A n \in Names : Len(writes[n]) = 1 /\ writes[n][1].rec.Fields = PortOk

\* What intLogf delivers for a template and its arguments when it is called
\* with them as they are, as Logf does.
Rendered(format, args) == IF Len(args) > 0 THEN Sprintf(format, args) ELSE format

\* C8: a format-style dispatch that is not skipped delivers the template with
\* the arguments applied once, the same message whichever format-style entry
\* point is used, also when the argument list is empty.
C8_SameMessage ==
  op.kind \in FormatStyle =>
    \A x \in AllWrites : x.rec.Message = Rendered(op.format, op.args)

(***************************************************************************)
(* Properties of the encoder                                               *)
(***************************************************************************)
\* C9: the "message" member of EncodeJson's output, read back as JSON, is
\* the record's message with every invalid byte sequence replaced by U+FFFD,
\* whatever control characters, quotes and backslashes the message holds.
C9_MessageRoundTrip ==
  output # <<>> =>
    LET m == JsonMessage(output) IN m.ok /\ m.value = ReplaceInvalid(record.Message)

\* A text as safeAddString writes it into an empty buffer.
Escaped(s) == safeAddString(newJsonEncoder, s).buf

\* The text of a field's value in a JSON line.
ValueText(f) ==
  IF f.Type = "BoolType"
  THEN (IF f.Interface.bool THEN <<116, 114, 117, 101>> ELSE <<102, 97, 108, 115, 101>>)
  ELSE IF f.Type = "Int32Type" THEN FormatInt(f.Integer)
  ELSE <<34>> \o Escaped(f.String) \o <<34>>

\* ,"key": value  for every field whose kind is not UnknownType, in order.
RECURSIVE Pairs(_)
Pairs(fields) ==
  IF fields = <<>> THEN <<>>
  ELSE (IF Head(fields).Type = "UnknownType" THEN <<>>
        ELSE <<44, 34>> \o Escaped(Head(fields).Key) \o <<34, 58, 32>> \o ValueText(Head(fields)))
       \o Pairs(Tail(fields))

\* {"time":T,"message":"M","level":"L","file":"F"  pairs  }  newline
JsonLine(rec) ==
  <<123>> \o <<34, 116, 105, 109, 101, 34, 58>> \o FormatTime(rec.Created)
  \o <<44, 34, 109, 101, 115, 115, 97, 103, 101, 34, 58, 34>> \o rec.Message \o <<34>>
  \o <<44, 34, 108, 101, 118, 101, 108, 34, 58, 34>> \o levelStrings[rec.Level + 1] \o <<34>>
  \o <<44, 34, 102, 105, 108, 101, 34, 58, 34>> \o rec.Source \o <<34>>
  \o Pairs(rec.Fields) \o <<125, 10>>

\* ,"port": 8080,"ok": true}  newline
PortOkTail ==
  <<44, 34, 112, 111, 114, 116, 34, 58, 32, 56, 48, 56, 48,
    44, 34, 111, 107, 34, 58, 32, 116, 114, 117, 101, 125, 10>>

EndsWith(s, tail) == Len(s) >= Len(tail) /\ SubSeq(s, Len(s) - Len(tail) + 1, Len(s)) = tail

\* "start" at INFO with the fields port = int32 8080, ok = bool true
IsStartRecord(rec) ==
  rec.Message = <<115, 116, 97, 114, 116>> /\ rec.Level = INFO /\ rec.Fields = PortOk

\* C10: on an encoder with an empty buffer EncodeJson returns an opening
\* brace, the members time, message, level, file in that order, one
\* ,"key": value pair for every field whose kind is not UnknownType, in the
\* order given, a closing brace and a newline; "start" at INFO with port = 8080
\* and ok = true ends with ,"port": 8080,"ok": true} and the newline.
C10_JsonLayout ==
  output # <<>> =>
    /\ output = JsonLine(record)
    /\ IsStartRecord(record) => EndsWith(output, PortOkTail)

\* C10's case: "start" at INFO with port = 8080 and ok = true has been encoded.
C10_Witness ==
  /\ IsStartRecord(record)
  /\ EndsWith(output, PortOkTail)

(***************************************************************************)
(* Properties of the encoder pool                                          *)
(***************************************************************************)
\* What a newly constructed encoder returns for the record in the mode.
FreshOutput(mode, rec) ==
  IF mode = "json" THEN EncodeJson(newJsonEncoder, rec).buf
  ELSE EncodeString(newJsonEncoder, rec).out

\* C11: over any sequence of getJsonEncoder, one EncodeJson or EncodeString,
\* putJsonEncoder cycles, every encoding equals what a newly constructed
\* encoder returns for that record alone, so that two instances that encode
\* the same record in the same mode return the same bytes.
C11_EncoderReuse ==
  /\ \A i \in EncoderIds :
       last[i].mode # "none" => last[i].out = FreshOutput(last[i].mode, last[i].rec)
  /\ \A i, j \in EncoderIds :
       (last[i].mode = last[j].mode /\ last[i].rec = last[j].rec) => last[i].out = last[j].out

\* C11's case: two instances, one of them taken out of the pool after an
\* earlier use, have encoded the same record with fields in the same mode.
C11_Witness ==
  \E i, j \in EncoderIds :
    /\ i # j
    /\ recycled[i]
    /\ phase[i] = "used" /\ phase[j] = "used"
    /\ last[i].mode # "none"
    /\ last[i].mode = last[j].mode /\ last[i].rec = last[j].rec
    /\ last[i].rec.Fields # <<>>

(***************************************************************************)
(* Properties of EncodeString and Level.String                             *)
(***************************************************************************)
\* The value of a field as the text line shows it: an integer kind in
\* decimal, a text as it is, anything else in its generic rendering.
TextValue(f) ==
  IF f.Type \in {"IntType", "Int8Type", "Int32Type", "Int64Type", "Uint8Type", "Uint32Type",
                 "Uint64Type"}
  THEN FormatInt(f.Integer)
  ELSE IF f.Type = "StringType" THEN f.String
  ELSE DefaultText(f.Interface)

\* " key:value" for every field that has a kind, in order.
RECURSIVE TextPairs(_)
TextPairs(fields) ==
  IF fields = <<>> THEN <<>>
  ELSE (IF Head(fields).Type = "UnknownType" THEN <<>>
        ELSE <<32>> \o Head(fields).Key \o <<58>> \o TextValue(Head(fields)))
       \o TextPairs(Tail(fields))

\* C12: EncodeString returns the message as it is when the record has no
\* fields, and otherwise the message followed by " key:value" for every field
\* in order, with nothing after the last value.
C12_TextLine ==
  fn = "EncodeString" =>
    ret.text = IF arg.rec.Fields = <<>> THEN arg.rec.Message
               ELSE arg.rec.Message \o TextPairs(arg.rec.Fields)

\* FNST, FINE, DEBG, TRAC, INFO, WARN, EROR, CRIT
LevelCodes ==
  [l \in Levels |->
     CASE l = FINEST -> <<70, 78, 83, 84>>
       [] l = FINE -> <<70, 73, 78, 69>>
       [] l = DEBUG -> <<68, 69, 66, 71>>
       [] l = TRACE -> <<84, 82, 65, 67>>
       [] l = INFO -> <<73, 78, 70, 79>>
       [] l = WARNING -> <<87, 65, 82, 78>>
       [] l = ERROR -> <<69, 82, 79, 82>>
       [] l = CRITICAL -> <<67, 82, 73, 84>>]

\* C13: Level.String returns the four-character code of each of the eight
\* levels and "UNKNOWN", without failing, for every other integer, 8 and the
\* negative values included.
C13_LevelString ==
  fn = "Level.String" =>
    ret.text = IF arg.lvl \in Levels THEN LevelCodes[arg.lvl] ELSE <<85, 78, 75, 78, 79, 87, 78>>

(***************************************************************************)
(* Properties of the record pool                                           *)
(***************************************************************************)
\* C14: PutLogRecord leaves every field of the record at its zero value
\* (Level FINEST, the zero time, empty Source and Message, Json false, no
\* Fields), and a record GetLogRecord returns holds exactly the level, source,
\* message, Json flag and fields of that call, whatever the instance held in
\* an earlier use.
C14_RecordPool ==
  \A i \in RecordIds :
    /\ recPhase[i] = "pooled" =>
         /\ recs[i].Level = FINEST /\ recs[i].Created = ZeroTime
         /\ recs[i].Source = <<>> /\ recs[i].Message = <<>>
         /\ recs[i].Json = FALSE /\ recs[i].Fields = <<>>
    /\ recPhase[i] = "taken" =>
         /\ recs[i].Level = recArgs[i].Level
         /\ recs[i].Source = recArgs[i].Source
         /\ recs[i].Message = recArgs[i].Message
         /\ recs[i].Json = recArgs[i].Json
         /\ recs[i].Fields = recArgs[i].Fields

\* C14's case: an instance that held a structured record with fields was put
\* back and is out again for a call with no fields and another message.
C14_Witness ==
  \E i \in RecordIds :
    /\ recPhase[i] = "taken"
    /\ recBefore[i].Fields = PortOk
    /\ recArgs[i].Fields = <<>>
    /\ recArgs[i].Message # recBefore[i].Message
    /\ recs[i].Fields = <<>>

(***************************************************************************)
(* Properties of concurrent dispatch                                       *)
(***************************************************************************)
\* C15: with several callers inside dispatch calls on one Logger and no
\* AddFilter or Close under way, no call adds, removes or changes a binding,
\* and every call that returns has called LogWrite exactly once on every
\* binding that admits its level and on no other, whatever the interleaving.
C15_ConcurrentDispatch ==
  \A p \in Callers :
    /\ pc[p] # "idle" => log = seen[p]
    /\ pc[p] = "done" =>
         \A n \in Names :
           got[p][n] = IF n \in DOMAIN seen[p] /\ plvl[p] >= seen[p][n].Level THEN 1 ELSE 0

\* C15's case: two callers are both inside the second loop, each with one
\* binding written to and the other still to visit, in opposite orders.
C15_Witness ==
  \E p, q \in Callers :
    /\ p # q
    /\ pc[p] = "dispatch" /\ pc[q] = "dispatch"
    /\ got[p]["out"] = 1 /\ iter[p] = {"file"}
    /\ got[q]["file"] = 1 /\ iter[q] = {"out"}
    /\ plvl[q] >= log["out"].Level /\ plvl[p] >= log["file"].Level

(***************************************************************************)
(* Properties of safeAddString                                             *)
(***************************************************************************)
\* The length of the well-formed UTF-8 sequence of two to four bytes at the
\* head of s, or 0 when there is none (the table of well-formed byte
\* sequences of the Unicode standard).
ValidLen(s) ==
  LET n == Len(s)
      b == s[1]
      in(i, lo, hi) == i <= n /\ lo <= s[i] /\ s[i] <= hi
      c(i) == in(i, 128, 191)
  IN IF in(1, 194, 223) /\ c(2) THEN 2
     ELSE IF b = 224 /\ in(2, 160, 191) /\ c(3) THEN 3
     ELSE IF (in(1, 225, 236) \/ in(1, 238, 239)) /\ c(2) /\ c(3) THEN 3
     ELSE IF b = 237 /\ in(2, 128, 159) /\ c(3) THEN 3
     ELSE IF b = 240 /\ in(2, 144, 191) /\ c(3) /\ c(4) THEN 4
     ELSE IF in(1, 241, 243) /\ c(2) /\ c(3) /\ c(4) THEN 4
     ELSE IF b = 244 /\ in(2, 128, 143) /\ c(3) /\ c(4) THEN 4
     ELSE 0

\* 0123456789ABCDEF
HexDigits == <<48, 49, 50, 51, 52, 53, 54, 55, 56, 57, 65, 66, 67, 68, 69, 70>>

\* What one ASCII byte becomes.
EscapeAscii(b) ==
  IF b = 92 \/ b = 34 THEN <<92, b>>
  ELSE IF b = 10 THEN <<92, 110>>
  ELSE IF b = 13 THEN <<92, 114>>
  ELSE IF b = 9 THEN <<92, 116>>
  ELSE IF b < 32 THEN <<92, 117, 48, 48, HexDigits[(b \div 16) + 1], HexDigits[(b % 16) + 1]>>
  ELSE <<b>>

\* What a text becomes, byte by byte.
RECURSIVE EscapeRef(_)
EscapeRef(s) ==
  IF s = <<>> THEN <<>>
  ELSE IF s[1] < 128 THEN EscapeAscii(s[1]) \o EscapeRef(Tail(s))
  ELSE LET n == ValidLen(s) IN
       IF n = 0 THEN <<92, 117, 102, 102, 102, 100>> \o EscapeRef(Tail(s))
       ELSE SubSeq(s, 1, n) \o EscapeRef(SubSeq(s, n + 1, Len(s)))

\* Whether the quote at position i of s is escaped: an odd number of
\* backslashes stands right before it.
RECURSIVE BackslashesBefore(_, _)
BackslashesBefore(s, i) ==
  IF i > 1 /\ s[i - 1] = 92 THEN 1 + BackslashesBefore(s, i - 1) ELSE 0

\* C16: safeAddString copies every ASCII byte from 0x20 on other than the
\* backslash and the double quote, writes a backslash before those two, \n,
\* \r and \t for newline, carriage return and tab, \u00XX for any other byte
\* below 0x20, \ufffd for one byte that starts no valid UTF-8 sequence, and
\* copies a valid sequence of several bytes; so its output holds no byte
\* below 0x20 and no double quote without a backslash before it.
C16_SafeAddString ==
  fn = "safeAddString" =>
    /\ ret.text = EscapeRef(arg.text)
    /\ \A i \in DOMAIN ret.text :
         /\ ret.text[i] >= 32
         /\ ret.text[i] = 34 => BackslashesBefore(ret.text, i) % 2 = 1

\* a\"\\\n\r\t\u0001\ufffd U+00E9 U+20AC
EscSamplerOut ==
  <<97, 92, 34, 92, 92, 92, 110, 92, 114, 92, 116, 92, 117, 48, 48, 48, 49,
    92, 117, 102, 102, 102, 100, 195, 169, 226, 130, 172>>

\* C16's case: a text with a letter, a quote, a backslash, newline, carriage
\* return, tab, a control byte, a byte that is not UTF-8 and two valid
\* sequences has been escaped.
C16_Witness ==
  /\ fn = "safeAddString"
  /\ arg.text = EscSampler
  /\ ret.text = EscSamplerOut

(***************************************************************************)
(* Properties of the construction helpers                                  *)
(***************************************************************************)
IntegerKinds ==
  {"IntType", "Int8Type", "Uint8Type", "Int32Type", "Uint32Type", "Int64Type", "Uint64Type"}

\* The kind each typed helper gives its Field.
HelperKind(helper) ==
  CASE helper = "Bool" -> "BoolType"
    [] helper = "Int" -> "IntType"
    [] helper = "Int8" -> "Int8Type"
    [] helper = "Uint8" -> "Uint8Type"
    [] helper = "Int32" -> "Int32Type"
    [] helper = "Uint32" -> "Uint32Type"
    [] helper = "Int64" -> "Int64Type"
    [] helper = "Uint64" -> "Uint64Type"
    [] helper = "Float32" -> "Float32Type"
    [] helper = "Float64" -> "Float64Type"
    [] helper = "String" -> "StringType"
    [] helper = "Err" -> "StringType"

\* The kind Any is to give a value: the integer kind for a value of any
\* integer type, the text kind for a string, the fallback kind otherwise.
AnyKind(value) ==
  IF value.dyn \in SignedTypes \cup UnsignedTypes THEN "IntType"
  ELSE IF value.dyn = "string" THEN "StringType"
  ELSE "InterfaceType"

\* C17: the Field a construction helper returns has the kind of the helper
\* and its value in the slot of that kind: Integer for the integer kinds,
\* String for StringType, Interface with the matching dynamic type for
\* BoolType, Float32Type, Float64Type and InterfaceType; Field.AddTo on it
\* fails no type assertion; and Any gives IntType to a value of any integer
\* type, StringType to a string and InterfaceType to anything else.
C17_HelperKinds ==
  fn = "helper" =>
    LET f == ret.field
        v == arg.value
    IN /\ f.Type = IF arg.helper = "Any" THEN AnyKind(v) ELSE HelperKind(arg.helper)
       /\ f.Type \in IntegerKinds => f.Integer = v.num
       /\ f.Type = "StringType" =>
            f.String = IF arg.helper = "Err" /\ v.dyn = "nil" THEN <<110, 105, 108>> ELSE v.text
       /\ f.Type = "BoolType" => f.Interface = BoolValue(v.bool)
       /\ f.Type = "Float32Type" => f.Interface = NumValue("float32", v.num)
       /\ f.Type = "Float64Type" => f.Interface = NumValue("float64", v.num)
       /\ f.Type = "InterfaceType" => f.Interface = v
       /\ ~ ret.panics

\* ,"k":  followed by a space, and  m k:
JsonKeyK == <<44, 34, 107, 34, 58, 32>>

TextKeyK == <<109, 32, 107, 58>>

\* C18: the Field an integer helper builds from a value v of its parameter's
\* type, the ends of the type's range included, is rendered as the decimal
\* numeral of v by Field.AddTo in a JSON line and by the %d of EncodeString in
\* a text line.
C18_IntegerNumerals ==
  fn = "integer helper" =>
    /\ ret.json = JsonKeyK \o arg.numeral
    /\ ret.text \in {TextKeyK \o arg.numeral, TextKeyK \o arg.numeral \o <<32>>}

====
